---- MODULE Spec2Model ----
(***************************************************************************)
(* dashboard-dl: DashboardDownloader (src/src/dashboard_dl/downloader.py)  *)
(* and its command line (src/src/dashboard_dl/main.py).                    *)
(*                                                                         *)
(* Python values are modelled as follows.  A scalar is a string; NONE is   *)
(* Python's None (a JSON null), ABSENT a key that the mapping does not     *)
(* hold, "" the empty string, "{}" an empty mapping held as a value.  A    *)
(* mapping is a record with a kind field: "dict" for a JSON object, "null" *)
(* for a JSON null in its place, "absent" for a missing key.  An exception *)
(* that leaves a function is the record Raise(name).                       *)
(***************************************************************************)
EXTENDS Integers, Sequences, FiniteSets, TLC

VARIABLES
    pc,               \* position of download(): idle, metadata, visualizations, cells, links, outputs, returned, raised
    error,            \* the exception that left download(), NONE when none did
    soup,             \* the parsed page: its script tags and its anchors to /queries/ pages
    dirs,             \* directories created under output_dir
    metadata,         \* result of _extract_metadata
    dashboard_data,   \* the decoded state blob of the running pass (local of _extract_visualizations)
    next_cell,        \* index of the next entry of cells.items() the loop visits
    chart_count,      \* the pass's chart counter
    processed_queries,\* the pass's set of query ids already processed
    visualizations,   \* the descriptors appended so far
    calls,            \* every session.get issued, in order: [fn, url]
    writes,           \* every file written, in order: [file, content]
    leftover,         \* the files an earlier run left in the output directory, as writes
    cli,              \* the command line: running or exited, its exit status, what it echoed
    r_pc,             \* position of one cell's resolution (resolver specification)
    r_in,             \* the resolver's inputs: viz_content, cell_data, dashboard_data
    chart_config,     \* the resolver's live-fetched configuration
    r_out,            \* the resolver's results: title, type, axes
    scripts,          \* the script tags handed to _extract_dashboard_data (locator specification)
    located,          \* its outcome
    search_in,        \* the data and the target handed to find_statement_recursive (search specification)
    search_out,       \* its result
    lookup_in,        \* the blob and the query id handed to the lookups by query id (lookup specification)
    lookup_out,       \* what _find_compass_id_for_query and _get_query_metadata returned
    csv_in,           \* the response handed to the CSV serialization of _fetch_csv_data_from_compass (CSV specification)
    csv_out           \* the text it wrote, when it wrote one

vars == <<pc, error, soup, dirs, metadata, dashboard_data, next_cell, chart_count,
          processed_queries, visualizations, calls, writes, leftover, cli,
          r_pc, r_in, chart_config, r_out, scripts, located, search_in, search_out,
          lookup_in, lookup_out, csv_in, csv_out>>

pipeline_vars == <<pc, error, soup, dirs, metadata, dashboard_data, next_cell, chart_count,
                   processed_queries, visualizations, calls, writes, leftover, cli>>
resolver_vars == <<r_pc, r_in, chart_config, r_out>>
locator_vars == <<scripts, located>>
search_vars == <<search_in, search_out>>
lookup_vars == <<lookup_in, lookup_out>>
csv_vars == <<csv_in, csv_out>>

-----------------------------------------------------------------------------
(* Values *)

NONE == "<None>"
ABSENT == "<absent>"

\* bool(v) of a scalar
Truthy(v) == v \notin {NONE, ABSENT, "", "{}"}

\* d.get(k) and d.get(k, default) of a scalar field
Get(v) == IF v = ABSENT THEN NONE ELSE v
GetOr(v, default) == IF v = ABSENT THEN default ELSE v

\* a or b
Or(a, b) == IF Truthy(a) THEN a ELSE b

Raise(name) == [status |-> "raise", exc |-> name]
Return(v) == [status |-> "ok", value |-> v]

Range(s) == {s[i] : i \in DOMAIN s}

\* all sequences over S of length at most n
SeqUpTo(S, n) == UNION {[1..k -> S] : k \in 0..n}

-----------------------------------------------------------------------------
(* Bounds of the model *)

MaxCells == 2       \* entries of the cells mapping
MaxScripts == 2     \* script tags on the page (locator specification)
MaxEntries == 2     \* entries of loaderData (locator specification)
MaxValues == 2      \* values of a mapping / items of a list in the searched data (search specification)

-----------------------------------------------------------------------------
(* The state blob: dashboard -> configuration -> cells, contents, definitions *)

CellIds == <<"c1", "c2", "c3", "c4">>
AxKeys == {"xAxis", "yAxis", "subtitle"}

EmptyMap == [k \in AxKeys |-> ABSENT]
NoAxes == [kind |-> "absent", m |-> EmptyMap]
NullAxes == [kind |-> "null", m |-> EmptyMap]
AxesDict(m) == [kind |-> "dict", m |-> m]

\* a contents entry; kind "absent": the contents mapping has no such key
Content(kind, id, title, displayName, label, visId, queryId, axes) ==
    [kind |-> kind, id |-> id, title |-> title, displayName |-> displayName,
     label |-> label, visId |-> visId, queryId |-> queryId, axes |-> axes, html |-> ABSENT]
EmptyContent == Content("dict", ABSENT, ABSENT, ABSENT, ABSENT, ABSENT, ABSENT, NoAxes)
AbsentContent == [EmptyContent EXCEPT !.kind = "absent"]
NullContent == [EmptyContent EXCEPT !.kind = "null"]

\* an entry of the configuration's visualizations mapping
NoDef == [kind |-> "absent", title |-> ABSENT, displayName |-> ABSENT, chartType |-> ABSENT,
          type |-> ABSENT, chart_type |-> ABSENT, axes |-> NoAxes, xAxis |-> ABSENT,
          yAxis |-> ABSENT]

VisIds == {"v1", "v2"}
QueryIds == {"q1", "q2"}

NoDefs == [v \in VisIds |-> NoDef]
NoContents == [c \in Range(CellIds) |-> AbsentContent]

\* a configuration (publishedConfig / draftConfig)
NoHeader == [kind |-> "absent", dashboardTitle |-> ABSENT, dashboardDescription |-> ABSENT]
AbsentConfig == [kind |-> "absent", cells |-> <<>>, contents |-> NoContents,
                 visualizations |-> NoDefs, root_header |-> NoHeader]
NullConfig == [AbsentConfig EXCEPT !.kind = "null"]
EmptyConfig == [AbsentConfig EXCEPT !.kind = "dict"]

\* what _extract_dashboard_data returns when it returns None
NoDashboard == [kind |-> "None"]

\* a record of the blob's queries list
Query(id, succ, exec, statement) ==
    [id |-> id, lastSuccessfulCompassId |-> succ, lastExecutedCompassId |-> exec,
     statement |-> statement, lastExecutedAt |-> ABSENT,
     lastSuccessfulExecutionAt |-> IF succ = ABSENT THEN ABSENT ELSE "t1",
     resultLastAccessedAt |-> ABSENT]

-----------------------------------------------------------------------------
(* download(): the slug *)

\* url.rstrip('/')
RECURSIVE rstrip(_)
rstrip(u) == IF u # <<>> /\ u[Len(u)] = "/" THEN rstrip(SubSeq(u, 1, Len(u) - 1)) ELSE u

\* u.split('/'): the pieces between the slashes
RECURSIVE split(_)
split(u) ==
    IF \A i \in DOMAIN u : u[i] # "/" THEN <<u>>
    ELSE LET i == CHOOSE j \in DOMAIN u : u[j] = "/" /\ \A k \in 1..(j - 1) : u[k] # "/"
         IN  <<SubSeq(u, 1, i - 1)>> \o split(SubSeq(u, i + 1, Len(u)))

_extract_slug(url) ==
    LET parts == split(rstrip(url))
    IN  IF Len(parts) >= 2 THEN parts[Len(parts)] ELSE <<>>

-----------------------------------------------------------------------------
(* _extract_dashboard_data: the state locator *)

\* One script tag.  string: script.string is not empty; marker: it holds
\* '__remixContext'; json_start = find('{'); json_end = rfind('}') + 1; json:
\* what json.loads makes of the text between them.
Script(string, marker, json_start, json_end, json) ==
    [string |-> string, marker |-> marker, json_start |-> json_start,
     json_end |-> json_end, json |-> json]

JsonError == [kind |-> "error"]
NoLoaderData == [kind |-> "absent", entries |-> <<>>]
\* the decoded document; state.kind: absent, null, str, dict; state.has: the outcome
\* of 'loaderData' in data['state']
JsonData(state_kind, has, loaderData) ==
    [kind |-> "dict", state |-> [kind |-> state_kind, has |-> has, loaderData |-> loaderData]]
LoaderData(kind, entries) == [kind |-> kind, entries |-> entries]
\* one value of loaderData; dict: isinstance(value, dict); has: 'dashboard' in value
Entry(dict, has, dashboard) == [dict |-> dict, has |-> has, dashboard |-> dashboard]

\* for value in loader_data.values(): return value['dashboard'] at the first match
RECURSIVE first_dashboard(_)
first_dashboard(entries) ==
    IF entries = <<>> THEN [found |-> FALSE, dashboard |-> NoDashboard]
    ELSE IF Head(entries).dict /\ Head(entries).has
         THEN [found |-> TRUE, dashboard |-> Head(entries).dashboard]
         ELSE first_dashboard(Tail(entries))

\* the loop body for one script: "continue", a return or an escaping exception
script_outcome(script) ==
    IF ~script.string \/ ~script.marker THEN [status |-> "continue"]
    ELSE IF ~(script.json_start # -1 /\ script.json_end > script.json_start)
    THEN [status |-> "continue"]
    ELSE IF script.json.kind = "error" THEN [status |-> "continue"]  \* JSONDecodeError is caught
    ELSE LET state == script.json.state IN
         IF state.kind = "absent" THEN [status |-> "continue"]
         ELSE IF state.kind = "null" THEN Raise("TypeError")        \* 'loaderData' in None
         ELSE IF ~state.has THEN [status |-> "continue"]
         ELSE IF state.kind = "str" THEN Raise("TypeError")         \* "..."['loaderData']
         ELSE IF state.loaderData.kind # "dict" THEN Raise("AttributeError")  \* .values()
         ELSE LET hit == first_dashboard(state.loaderData.entries) IN
              IF hit.found THEN Return(hit.dashboard) ELSE [status |-> "continue"]

RECURSIVE _extract_dashboard_data(_)
_extract_dashboard_data(script_tags) ==
    IF script_tags = <<>> THEN Return(NoDashboard)
    ELSE LET o == script_outcome(Head(script_tags)) IN
         IF o.status = "continue" THEN _extract_dashboard_data(Tail(script_tags)) ELSE o

\* bool(dashboard_data): a non-empty mapping
dashboard_truthy(d) ==
    /\ d.kind = "dict"
    /\ \/ d.title # ABSENT
       \/ d.publishedConfig.kind # "absent"
       \/ d.draftConfig.kind # "absent"
       \/ d.has_queries

-----------------------------------------------------------------------------
(* Resolvers of one visualization cell *)

\* 'publishedConfig' if 'publishedConfig' in dashboard_data else 'draftConfig'
config_key(d) == IF d.publishedConfig.kind # "absent" THEN "publishedConfig" ELSE "draftConfig"

\* dashboard_data.get(config_key, {})
config_get(d) ==
    LET c == IF config_key(d) = "publishedConfig" THEN d.publishedConfig ELSE d.draftConfig
    IN  IF c.kind = "absent" THEN EmptyConfig ELSE c

\* the definition under vis_id in config.get('visualizations', {}), NoDef when the
\* mapping has no such key
viz_def_of(d, vis_id) ==
    IF vis_id \in VisIds THEN config_get(d).visualizations[vis_id] ELSE NoDef

\* spelling of the titles the model uses, for lower() and the substring tests
Chars(t) ==
    CASE t = "" -> <<>>
      [] t = "Live" -> <<"L", "i", "v", "e">>
      [] t = "Cell" -> <<"C", "e", "l", "l">>
      [] t = "Layout" -> <<"L", "a", "y", "o", "u", "t">>
      [] t = "Display" -> <<"D", "i", "s", "p", "l", "a", "y">>
      [] t = "Label" -> <<"L", "a", "b", "e", "l">>
      [] t = "DefTitle" -> <<"D", "e", "f", "T", "i", "t", "l", "e">>
      [] t = "DefDisplay" -> <<"D", "e", "f", "D", "i", "s", "p", "l", "a", "y">>
      [] t = "Pie BAR" -> <<"P", "i", "e", " ", "B", "A", "R">>
      [] t = "Timeline" -> <<"T", "i", "m", "e", "l", "i", "n", "e">>
      [] OTHER -> <<"?">>

lower_char(c) ==
    CASE c = "A" -> "a" [] c = "B" -> "b" [] c = "C" -> "c" [] c = "D" -> "d"
      [] c = "L" -> "l" [] c = "P" -> "p" [] c = "R" -> "r" [] c = "T" -> "t"
      [] OTHER -> c
lower(s) == [i \in DOMAIN s |-> lower_char(s[i])]

\* needle in hay
contains(hay, needle) ==
    \E i \in 1..(Len(hay) - Len(needle) + 1) : SubSeq(hay, i, i + Len(needle) - 1) = needle

\* the keyword chain of _extract_chart_type over the lowered title
keyword_kind(title) ==
    IF contains(title, <<"b", "a", "r">>) THEN "bar"
    ELSE IF contains(title, <<"l", "i", "n", "e">>) THEN "line"
    ELSE IF contains(title, <<"p", "i", "e">>) THEN "pie"
    ELSE IF contains(title, <<"h", "i", "s", "t", "o", "g", "r", "a", "m">>) THEN "histogram"
    ELSE IF contains(title, <<"s", "c", "a", "t", "t", "e", "r">>) THEN "scatter"
    ELSE IF contains(title, <<"t", "a", "b", "l", "e">>) THEN "table"
    ELSE "chart"

_extract_chart_type(viz_content, d) ==
    IF viz_content.kind # "dict" THEN "unknown"            \* None.get: caught
    ELSE IF ~Truthy(Get(viz_content.visId)) THEN "unknown"
    ELSE IF config_get(d).kind # "dict" THEN "unknown"     \* None.get: caught
    ELSE LET viz_def == viz_def_of(d, viz_content.visId)
             chart_type == Or(Or(Get(viz_def.chartType), Get(viz_def.type)),
                              Get(viz_def.chart_type))
         IN  IF viz_def.kind = "dict" /\ Truthy(chart_type) THEN chart_type
             ELSE IF viz_content.title = NONE THEN "unknown"   \* None.lower(): caught
             ELSE keyword_kind(lower(Chars(GetOr(viz_content.title, ""))))

\* f"Chart {viz_content.get('id', 'Unknown')}"
fallback_title(viz_content) ==
    "Chart " \o (IF viz_content.id = ABSENT THEN "Unknown"
                 ELSE IF viz_content.id = NONE THEN "None" ELSE viz_content.id)

_extract_chart_title(viz_content, cell_data, d) ==
    IF Truthy(Get(viz_content.title)) THEN viz_content.title
    ELSE IF Truthy(Get(cell_data.title)) THEN cell_data.title
    ELSE IF Truthy(Get(viz_content.displayName)) THEN viz_content.displayName
    ELSE IF Truthy(Get(viz_content.label)) THEN viz_content.label
    ELSE IF Truthy(Get(viz_content.visId)) /\ config_get(d).kind # "dict"
    THEN "Untitled Chart"                                  \* None.get: caught
    ELSE LET viz_def == IF Truthy(Get(viz_content.visId))
                        THEN viz_def_of(d, viz_content.visId) ELSE NoDef
         IN  IF viz_def.kind = "dict" /\ Truthy(Get(viz_def.title)) THEN viz_def.title
             ELSE IF viz_def.kind = "dict" /\ Truthy(Get(viz_def.displayName))
             THEN viz_def.displayName
             ELSE fallback_title(viz_content)

\* What the live collaborator answers to one request.  status "fail": an exception or
\* an error status.  Otherwise type is config.inputs.type, title is
\* config.options.title.text, subtitle is config.options.subtitle.text, xAxis and yAxis
\* are config.options.xAxis / yAxis (ABSENT where the response has no such key).
LiveFail == [status |-> "fail", type |-> ABSENT, title |-> ABSENT, subtitle |-> ABSENT,
             xAxis |-> ABSENT, yAxis |-> ABSENT]
LiveOk(type, title, subtitle, xAxis, yAxis) ==
    [status |-> "ok", type |-> type, title |-> title, subtitle |-> subtitle,
     xAxis |-> xAxis, yAxis |-> yAxis]

\* the empty configuration {}
NoChartConfig == [present |-> FALSE, type |-> ABSENT, title |-> ABSENT, subtitle |-> ABSENT,
                  xAxis |-> ABSENT, yAxis |-> ABSENT]

\* True when _fetch_chart_config_from_api issues its request
live_fetch_called(vis_id) == Truthy(vis_id)

\* a variant whose failure path keeps the default type
_fetch_chart_config_typed_on_failure(vis_id, response) ==
    IF ~Truthy(vis_id) THEN NoChartConfig
    ELSE IF response.status # "ok" THEN [NoChartConfig EXCEPT !.type = "unknown"]
    ELSE [present |-> TRUE,
          type |-> GetOr(response.type, "unknown"),
          title |-> GetOr(response.title, ""),
          subtitle |-> GetOr(response.subtitle, ""),
          xAxis |-> GetOr(response.xAxis, "{}"),
          yAxis |-> GetOr(response.yAxis, "{}")]

_fetch_chart_config_from_api(vis_id, response) ==
    IF ~Truthy(vis_id) THEN NoChartConfig
    ELSE IF response.status # "ok" THEN NoChartConfig
    ELSE [present |-> TRUE,
          type |-> GetOr(response.type, "unknown"),
          title |-> GetOr(response.title, ""),
          subtitle |-> GetOr(response.subtitle, ""),
          xAxis |-> GetOr(response.xAxis, "{}"),
          yAxis |-> GetOr(response.yAxis, "{}")]

\* a variant that looks at the live title only after the embedded sources
_extract_chart_title_embedded_first(viz_content, cell_data, d, cc) ==
    LET api_title == GetOr(cc.title, "")
        embedded == _extract_chart_title(viz_content, cell_data, d)
    IN  IF embedded = fallback_title(viz_content) /\ Truthy(api_title) THEN api_title
        ELSE embedded

_extract_chart_title_with_api(viz_content, cell_data, d, cc) ==
    LET api_title == GetOr(cc.title, "")
    IN  IF Truthy(api_title) THEN api_title
        ELSE _extract_chart_title(viz_content, cell_data, d)

\* final_chart_type = chart_config.get('type', chart_type)
final_chart_type(cc, chart_type) == GetOr(cc.type, chart_type)

\* a.update(b) on the key maps
map_update(a, b) == [k \in AxKeys |-> IF b[k] # ABSENT THEN b[k] ELSE a[k]]

\* _extract_axes_info: the value it returns.  Every statement sits in one try block,
\* so the first failing statement ends it with axes_info as it then stands.
_extract_axes_info(viz_content, d) ==
    LET a0 == IF viz_content.axes.kind = "absent" THEN AxesDict(EmptyMap)
              ELSE viz_content.axes
        vis_id == Get(viz_content.visId)
    IN  IF ~Truthy(vis_id) THEN a0
        ELSE IF config_get(d).kind # "dict" THEN a0           \* None.get raises
        ELSE LET viz_def == viz_def_of(d, vis_id) IN
             IF viz_def.kind # "dict" THEN a0
             ELSE IF viz_def.axes.kind # "absent" /\ a0.kind # "dict" THEN a0  \* no update()
             ELSE IF viz_def.axes.kind = "null" THEN a0       \* update(None) raises
             ELSE LET a1 == IF viz_def.axes.kind = "dict"
                            THEN AxesDict(map_update(a0.m, viz_def.axes.m)) ELSE a0
                  IN  IF viz_def.xAxis # ABSENT /\ a1.kind # "dict" THEN a1   \* item assignment raises
                      ELSE LET a2 == IF viz_def.xAxis # ABSENT
                                     THEN AxesDict([a1.m EXCEPT !["xAxis"] = viz_def.xAxis])
                                     ELSE a1
                           IN  IF viz_def.yAxis # ABSENT /\ a2.kind # "dict" THEN a2
                               ELSE IF viz_def.yAxis # ABSENT
                                    THEN AxesDict([a2.m EXCEPT !["yAxis"] = viz_def.yAxis])
                                    ELSE a2

\* a pass that leaves the content's axes mapping emptied
content_after_axes_cleared(viz_content, d) ==
    IF viz_content.kind = "dict" /\ viz_content.axes.kind = "dict"
    THEN [viz_content EXCEPT !.axes = AxesDict(EmptyMap)]
    ELSE viz_content

\* viz_content after _extract_axes_info ran: axes_info is viz_content['axes'] itself
\* when the content has that key, so the updates land in the blob
content_after_axes(viz_content, d) ==
    IF viz_content.kind = "dict" /\ viz_content.axes.kind = "dict"
    THEN [viz_content EXCEPT !.axes = _extract_axes_info(viz_content, d)]
    ELSE viz_content

\* the live part of _extract_axes_info_with_api
live_axes(cc) ==
    [k \in AxKeys |->
        LET v == CASE k = "xAxis" -> GetOr(cc.xAxis, "{}")
                   [] k = "yAxis" -> GetOr(cc.yAxis, "{}")
                   [] OTHER -> GetOr(cc.subtitle, "")
        IN  IF Truthy(v) THEN v ELSE ABSENT]

_extract_axes_info_with_api(viz_content, d, cc) ==
    LET original_axes == _extract_axes_info(viz_content, d)
    IN  IF original_axes.kind # "dict"
        THEN \* original_axes.items() raises: the handler takes the embedded result
             _extract_axes_info(content_after_axes(viz_content, d), d)
        ELSE AxesDict([k \in AxKeys |->
                        IF live_axes(cc)[k] # ABSENT THEN live_axes(cc)[k]
                        ELSE original_axes.m[k]])


-----------------------------------------------------------------------------
(* Query lookups in the state blob *)

\* a lookup that prefers lastExecutedCompassId to lastSuccessfulCompassId
RECURSIVE find_compass_executed_first(_, _)
find_compass_executed_first(queries, query_id) ==
    IF queries = <<>> THEN NONE
    ELSE LET query == Head(queries)
             compass_id == Or(Get(query.lastExecutedCompassId), Get(query.lastSuccessfulCompassId))
         IN  IF Get(query.id) = query_id /\ Truthy(compass_id) THEN compass_id
             ELSE find_compass_executed_first(Tail(queries), query_id)

\* _find_compass_id_for_query: the loop over dashboard_data.get('queries', [])
RECURSIVE find_compass(_, _)
find_compass(queries, query_id) ==
    IF queries = <<>> THEN NONE
    ELSE LET query == Head(queries)
             compass_id == Or(Get(query.lastSuccessfulCompassId), Get(query.lastExecutedCompassId))
         IN  IF Get(query.id) = query_id /\ Truthy(compass_id) THEN compass_id
             ELSE find_compass(Tail(queries), query_id)

_find_compass_id_for_query(query_id, d) ==
    IF ~Truthy(query_id) THEN NONE ELSE find_compass(d.queries, query_id)

NoQueryMetadata == [last_executed |-> NONE, last_successful_execution |-> NONE,
                    result_last_accessed |-> NONE]

RECURSIVE query_metadata_of(_, _)
query_metadata_of(queries, query_id) ==
    IF queries = <<>> THEN NoQueryMetadata
    ELSE IF Get(Head(queries).id) = query_id
         THEN [last_executed |-> Get(Head(queries).lastExecutedAt),
               last_successful_execution |-> Get(Head(queries).lastSuccessfulExecutionAt),
               result_last_accessed |-> Get(Head(queries).resultLastAccessedAt)]
         ELSE query_metadata_of(Tail(queries), query_id)

_get_query_metadata(query_id, d) ==
    IF ~Truthy(query_id) THEN NoQueryMetadata ELSE query_metadata_of(d.queries, query_id)

\* find_statement_recursive over the blob.  In the blobs of this model only the
\* records of the queries list carry an id together with a statement, so the walk
\* comes down to that list: a matching record returns its statement, and the caller
\* goes on to the next record when that value is empty.
RECURSIVE find_statement_recursive(_, _)
find_statement_recursive(queries, target_query_id) ==
    IF queries = <<>> THEN NONE
    ELSE LET data == Head(queries)
             result == IF Get(data.id) = target_query_id /\ data.statement # ABSENT
                       THEN data.statement ELSE NONE
         IN  IF Truthy(result) THEN result
             ELSE find_statement_recursive(Tail(queries), target_query_id)

\* Any JSON value, as find_statement_recursive sees it: a mapping with its 'id' and
\* 'statement' entries (ABSENT: no such key) and its other values in key order, a list
\* with its items, or a scalar.
Obj(id, statement, values) ==
    [type |-> "dict", id |-> id, statement |-> statement, values |-> values]
List(items) == [type |-> "list", id |-> ABSENT, statement |-> ABSENT, values |-> items]
Scalar == [type |-> "scalar", id |-> ABSENT, statement |-> ABSENT, values |-> <<>>]

\* find_statement_recursive over any JSON value; first_result is its loop over the
\* values of a mapping or the items of a list
RECURSIVE find_statement_walk(_, _), first_result(_, _)
find_statement_walk(data, target_query_id) ==
    IF data.type = "dict"
    THEN IF Get(data.id) = target_query_id /\ data.statement # ABSENT
         THEN data.statement
         ELSE first_result(data.values, target_query_id)
    ELSE IF data.type = "list" THEN first_result(data.values, target_query_id)
    ELSE NONE
first_result(values, target_query_id) ==
    IF values = <<>> THEN NONE
    ELSE LET result == find_statement_walk(Head(values), target_query_id)
         IN  IF Truthy(result) THEN result
             ELSE first_result(Tail(values), target_query_id)

-----------------------------------------------------------------------------
(* Files and requests *)

Host == "https://flipsidecrypto.xyz"
\* urljoin('https://flipsidecrypto.xyz', href) of an absolute path
urljoin(href) == Host \o href
studio_url(query_id) == Host \o "/studio/queries/" \o query_id
chart_api_url(vis_id) == Host \o "/api/visualizations/" \o vis_id
csv_urls(query_id) == <<Host \o "/api/queries/" \o query_id \o "/data/csv",
                        Host \o "/studio/queries/" \o query_id \o "/data.csv">>
compass_url(compass_id) == Host \o "/api/query-runs/" \o compass_id \o "/results"

chart_id(n) == "chart-" \o ToString(n)
config_file(n) == "visualizations/" \o chart_id(n) \o ".json"
sql_file(stem) == "assets/" \o stem \o ".sql"
csv_file(stem) == "assets/" \o stem \o ".csv"

Call(fn, url) == [fn |-> fn, url |-> url]
Write(file, content) == [file |-> file, content |-> content]

\* the files on disk after a sequence of writes: the last write of a file stands
file_exists(ws, file) == \E i \in DOMAIN ws : ws[i].file = file
file_content(ws, file) ==
    ws[CHOOSE i \in DOMAIN ws : ws[i].file = file
                                  /\ \A j \in DOMAIN ws : ws[j].file = file => j <= i].content

\* is the value hashable (a JSON list or object is not; the model writes one as "[list]")
hashable(v) == v # "[list]"


-----------------------------------------------------------------------------
(* _extract_metadata *)

NoMetadata == [url |-> NONE, title |-> NONE, author |-> NONE, abstract |-> NONE]

\* soup: the script tags, the hrefs of the anchors to /queries/ pages, the text of the
\* <title> element, of the first title selector hit and of the first description
\* selector hit (ABSENT where the page has none)
Soup(script_tags, links, title_elem, title_selector, desc_selector) ==
    [script_tags |-> script_tags, links |-> links, title_elem |-> title_elem,
     title_selector |-> title_selector, desc_selector |-> desc_selector]
NoSoup == Soup(<<>>, <<>>, ABSENT, ABSENT, ABSENT)

\* lines 115-146: the HTML selectors, consulted when the blob left the field empty
html_fallbacks(page, title, abstract) ==
    [url |-> "<url>",
     title |-> IF Truthy(title) THEN title
               ELSE IF page.title_selector # ABSENT THEN page.title_selector
               ELSE IF page.title_elem # ABSENT THEN page.title_elem
               ELSE title,
     author |-> NONE,
     abstract |-> IF Truthy(abstract) THEN abstract
                  ELSE IF page.desc_selector # ABSENT THEN page.desc_selector
                  ELSE abstract]

_extract_metadata(page) ==
    LET o == _extract_dashboard_data(page.script_tags) IN
    IF o.status = "raise" THEN o
    ELSE IF ~dashboard_truthy(o.value) THEN Return(html_fallbacks(page, NONE, NONE))
    ELSE LET d == o.value
             title == IF d.title # ABSENT THEN d.title ELSE NONE
             config == IF config_key(d) = "publishedConfig" THEN d.publishedConfig
                       ELSE d.draftConfig
         IN  IF config.kind = "absent" THEN Return(html_fallbacks(page, title, NONE))
             ELSE IF config.kind = "null" THEN Raise("AttributeError")   \* config.get
             ELSE Return(html_fallbacks(page,
                    IF config.root_header.dashboardTitle # ABSENT
                    THEN config.root_header.dashboardTitle ELSE title,
                    IF config.root_header.dashboardDescription # ABSENT
                    THEN config.root_header.dashboardDescription ELSE NONE))

-----------------------------------------------------------------------------
(* Output files *)

\* the *.sql files of the assets directory
sql_files_on_disk(ws) == {ws[i].file : i \in {j \in DOMAIN ws : ws[j].content.kind = "sql"}}

\* _generate_markdown: what dashboard.md says
markdown_content(meta, vis, ws) ==
    [kind |-> "md", title |-> meta.title,
     data_source_files |-> sql_files_on_disk(ws),
     charts |-> [i \in DOMAIN vis |->
        [id |-> vis[i].id,
         sql |-> IF ~Truthy(vis[i].query_id) THEN "No query ID available"
                 ELSE IF file_exists(ws, sql_file(vis[i].query_id))
                      THEN sql_file(vis[i].query_id) ELSE "Not publicly accessible",
         resultset |-> IF ~Truthy(vis[i].query_id) THEN "No query ID available"
                 ELSE IF file_exists(ws, csv_file(vis[i].query_id))
                      THEN csv_file(vis[i].query_id) ELSE "Not available for download"]]]

\* a metadata.json whose unique_queries counts every descriptor that has a query id
json_artifact_counting_references(meta, vis, ws) ==
    LET ids == {vis[i].query_id : i \in {j \in DOMAIN vis : Truthy(vis[j].query_id)}}
        first(q) == CHOOSE i \in DOMAIN vis :
                        vis[i].query_id = q /\ \A j \in 1..(i - 1) : vis[j].query_id # q
    IN  [kind |-> "json", title |-> meta.title,
         total_charts |-> Len(vis),
         unique_queries |-> Cardinality({j \in DOMAIN vis : Truthy(vis[j].query_id)}),
         queries |-> {[query_id |-> q,
                       sql_file |-> IF file_exists(ws, sql_file(q)) THEN sql_file(q) ELSE NONE,
                       csv_file |-> IF file_exists(ws, csv_file(q)) THEN csv_file(q) ELSE NONE,
                       last_executed |-> vis[first(q)].query_metadata.last_successful_execution,
                       result_last_accessed |-> vis[first(q)].query_metadata.result_last_accessed,
                       compass_id |-> vis[first(q)].compass_id] : q \in ids},
         visualizations |-> [i \in DOMAIN vis |->
            [chart_id |-> vis[i].id, cell_id |-> vis[i].cell_id, title |-> vis[i].title,
             type |-> vis[i].type, vis_id |-> vis[i].vis_id, query_id |-> vis[i].query_id,
             config_file |-> "visualizations/" \o vis[i].id \o ".json",
             axes |-> vis[i].axes]]]

\* _generate_json_artifact: what metadata.json says
json_artifact(meta, vis, ws) ==
    LET ids == {vis[i].query_id : i \in {j \in DOMAIN vis : Truthy(vis[j].query_id)}}
        first(q) == CHOOSE i \in DOMAIN vis :
                        vis[i].query_id = q /\ \A j \in 1..(i - 1) : vis[j].query_id # q
    IN  [kind |-> "json", title |-> meta.title,
         total_charts |-> Len(vis),
         unique_queries |-> Cardinality(ids),
         queries |-> {[query_id |-> q,
                       sql_file |-> IF file_exists(ws, sql_file(q)) THEN sql_file(q) ELSE NONE,
                       csv_file |-> IF file_exists(ws, csv_file(q)) THEN csv_file(q) ELSE NONE,
                       last_executed |-> vis[first(q)].query_metadata.last_successful_execution,
                       result_last_accessed |-> vis[first(q)].query_metadata.result_last_accessed,
                       compass_id |-> vis[first(q)].compass_id] : q \in ids},
         visualizations |-> [i \in DOMAIN vis |->
            [chart_id |-> vis[i].id, cell_id |-> vis[i].cell_id, title |-> vis[i].title,
             type |-> vis[i].type, vis_id |-> vis[i].vis_id, query_id |-> vis[i].query_id,
             config_file |-> "visualizations/" \o vis[i].id \o ".json",
             axes |-> vis[i].axes]]]

\* _generate_html, line 923: query_id[:8] of viz.get('query_id', ''); the key is always
\* there, so a cell without queryId hands None to the slice
html_raises(vis) == \E i \in DOMAIN vis : vis[i].query_id \in {NONE, ABSENT}

html_content(meta, vis, ws) ==
    [kind |-> "html", title |-> meta.title,
     canvases |-> [i \in DOMAIN vis |-> vis[i].id],
     chart_scripts |-> {vis[i].id : i \in {j \in DOMAIN vis :
                            /\ Truthy(vis[j].query_id)
                            /\ file_exists(ws, csv_file(vis[j].query_id))}}]


-----------------------------------------------------------------------------
(* Inputs of download(): the URL, the page, the collaborators' answers *)

Urls == {<<>>, <<"d">>, <<"/">>, <<"h", "/", "d">>, <<"h", "/", "d", "/">>}

Dashboard(title, publishedConfig, draftConfig, queries) ==
    [kind |-> "dict", title |-> title, publishedConfig |-> publishedConfig,
     draftConfig |-> draftConfig, has_queries |-> queries # <<>>, queries |-> queries]

Def1 == [kind |-> "dict", title |-> "DefTitle", displayName |-> ABSENT, chartType |-> "bar",
         type |-> ABSENT, chart_type |-> ABSENT, axes |-> NoAxes, xAxis |-> "def.x",
         yAxis |-> ABSENT]
PageDefs == [v \in VisIds |-> IF v = "v1" THEN Def1 ELSE NoDef]

CellData(kind, variant, title) == [kind |-> kind, variant |-> variant, title |-> title]

\* the contents entry of a visualization cell: absent, null, or an object with a visId
\* and a queryId, with one of them, or with a queryId that is a JSON list
VizContents ==
    {AbsentContent, NullContent}
    \cup {Content("dict", ABSENT, ABSENT, ABSENT, ABSENT, p[1], p[2], NoAxes) :
            p \in {<<"v1", ABSENT>>, <<ABSENT, "q1">>, <<"v1", "q1">>, <<ABSENT, "q2">>,
                   <<ABSENT, "[list]">>}}

\* the contents entry of a text cell that has markup under 'html'
TextContent == [EmptyContent EXCEPT !.html = "<p>Hi</p>"]

\* one entry of cells together with its entry of contents
CellShapes ==
    {[data |-> CellData("null", ABSENT, ABSENT), content |-> AbsentContent],
     [data |-> CellData("dict", "text", ABSENT), content |-> EmptyContent],
     [data |-> CellData("dict", "text", ABSENT), content |-> TextContent]}
    \cup {[data |-> CellData("dict", "visualization", ABSENT), content |-> c] : c \in VizContents}

Config(shapes) ==
    [kind |-> "dict",
     cells |-> [i \in DOMAIN shapes |-> [cell_id |-> CellIds[i], data |-> shapes[i].data]],
     contents |-> [c \in Range(CellIds) |->
                     IF \E i \in DOMAIN shapes : CellIds[i] = c
                     THEN shapes[CHOOSE i \in DOMAIN shapes : CellIds[i] = c].content
                     ELSE AbsentContent],
     visualizations |-> PageDefs,
     root_header |-> NoHeader]

Configs == {Config(shapes) : shapes \in SeqUpTo(CellShapes, MaxCells)}

CompassIds == {<<ABSENT, ABSENT>>, <<"k1", ABSENT>>, <<ABSENT, "k2">>}
QueryLists ==
    {<<>>} \cup {<<Query("q1", k[1], k[2], statement)>> :
                    k \in CompassIds, statement \in {ABSENT, "SELECT 1"}}

Dashboards ==
    {Dashboard("T", c, AbsentConfig, q) : c \in Configs, q \in QueryLists}
    \cup {Dashboard("T", AbsentConfig, c, <<>>) : c \in Configs}
    \cup {Dashboard("T", NullConfig, c, <<>>) : c \in Configs}
    \cup {Dashboard("T", EmptyConfig, c, <<>>) : c \in Configs}
    \cup {Dashboard("T", AbsentConfig, AbsentConfig, <<>>)}

MarkerScript(json) == Script(TRUE, TRUE, 24, 99, json)
BlobScript(d) == MarkerScript(JsonData("dict", TRUE, LoaderData("dict", <<Entry(TRUE, TRUE, d)>>)))

ScriptLists ==
    {<<>>, <<MarkerScript(JsonError)>>, <<MarkerScript(JsonData("null", FALSE, NoLoaderData))>>}
    \cup {<<BlobScript(d)>> : d \in Dashboards}

\* the anchors to /queries/ pages: none, or one to the studio page of q1
LinkLists == {<<>>, <<"/studio/queries/q1">>}

Pages == {Soup(st, links, "Page", ABSENT, ABSENT) : st \in ScriptLists, links \in LinkLists}

\* answers of the live chart-configuration collaborator
LiveResponses == {LiveFail, LiveOk("line", "Live", ABSENT, "live.x", ABSENT)}
\* what _fetch_sql_query returns
SqlPages == {NONE, "SELECT page"}
\* which of the two CSV endpoints of _try_fetch_csv_data answers with text/csv (0: none)
CsvHits == {0, 1, 2}

-----------------------------------------------------------------------------
(* _process_dashboard_visualizations: the SQL and CSV steps of one query id *)

\* a pass that attempts the extraction at every cell that names a query id
seen_never(query_id, processed) == Truthy(query_id)

\* line 295: if query_id and query_id not in processed_queries
not_seen_before(query_id, processed) == Truthy(query_id) /\ query_id \notin processed

\* lines 298-309, with what the collaborators answer: the requests sent and the files
\* written, in order
process_query(query_id, compass_id, d, sql_page, csv_hit, compass_ok) ==
    LET sql_statement == find_statement_recursive(d.queries, query_id)
        sql_extracted == Truthy(sql_statement)
        inline == IF sql_extracted
                  THEN [calls |-> <<>>,
                        writes |-> <<Write(sql_file(query_id), [kind |-> "sql", text |-> sql_statement])>>]
                  ELSE [calls |-> <<>>, writes |-> <<>>]
        \* _extract_sql_for_query
        studio == IF sql_extracted THEN [calls |-> <<>>, writes |-> <<>>]
                  ELSE IF Truthy(sql_page)
                  THEN [calls |-> <<Call("_fetch_sql_query", studio_url(query_id))>>,
                        writes |-> <<Write(sql_file(query_id), [kind |-> "sql", text |-> sql_page])>>]
                  ELSE \* _try_fetch_csv_data
                       [calls |-> <<Call("_fetch_sql_query", studio_url(query_id)),
                                    Call("_try_fetch_csv_data", csv_urls(query_id)[1])>>
                                  \o (IF csv_hit = 1 THEN <<>>
                                      ELSE <<Call("_try_fetch_csv_data", csv_urls(query_id)[2])>>),
                        writes |-> IF csv_hit = 0 THEN <<>>
                                   ELSE <<Write(csv_file(query_id),
                                                [kind |-> "csv", text |-> "response.text"])>>]
        compass == IF ~Truthy(compass_id) THEN [calls |-> <<>>, writes |-> <<>>]
                   ELSE [calls |-> <<Call("_fetch_csv_data_from_compass", compass_url(compass_id))>>,
                         writes |-> IF compass_ok
                                    THEN <<Write(csv_file(query_id),
                                                 [kind |-> "csv", text |-> "csv_content"])>>
                                    ELSE <<>>]
    IN  [calls |-> inline.calls \o studio.calls \o compass.calls,
         writes |-> inline.writes \o studio.writes \o compass.writes]


-----------------------------------------------------------------------------
(* download(): the steps *)

\* main.py: the command line before download() is over
CliRunning == [status |-> "running", code |-> NONE, out |-> NONE, err |-> NONE]
run_idle == leftover = <<>> /\ cli = CliRunning

resolver_idle ==
    /\ r_pc = "off"
    /\ r_in = [viz_content |-> EmptyContent, cell_data |-> CellData("dict", ABSENT, ABSENT),
               dashboard_data |-> NoDashboard, response |-> LiveFail]
    /\ chart_config = NoChartConfig
    /\ r_out = [chart_type |-> NONE, title |-> NONE, axes |-> NoAxes, type |-> NONE]
locator_idle == scripts = <<>> /\ located = [status |-> "off"]
search_idle ==
    /\ search_in = [data |-> Scalar, target_query_id |-> NONE]
    /\ search_out = [status |-> "off"]

lookup_idle ==
    /\ lookup_in = [dashboard_data |-> NoDashboard, query_id |-> NONE]
    /\ lookup_out = [compass_id |-> [status |-> "off"], metadata |-> [status |-> "off"]]

csv_idle ==
    /\ csv_in = [status_code |-> 0, columns |-> <<>>, csvData |-> <<>>]
    /\ csv_out = [status |-> "off"]

\* what the output directory holds when download() starts: nothing, or the SQL and the
\* result file an earlier run into the same directory wrote for q1 (mkdir(exist_ok=True),
\* lines 38 and 51-52, keeps whatever is there)
Leftovers ==
    {<<>>,
     <<Write(sql_file("q1"), [kind |-> "sql", text |-> "SELECT 1"]),
       Write(csv_file("q1"), [kind |-> "csv", text |-> "csv_content"])>>}

Init ==
    /\ pc = "idle"
    /\ error = NONE
    /\ soup = NoSoup
    /\ dirs = {}
    /\ metadata = NoMetadata
    /\ dashboard_data = NoDashboard
    /\ next_cell = 1
    /\ chart_count = 0
    /\ processed_queries = {}
    /\ visualizations = <<>>
    /\ calls = <<>>
    /\ writes = <<>>
    /\ leftover \in Leftovers
    /\ cli = CliRunning
    /\ resolver_idle
    /\ locator_idle
    /\ search_idle
    /\ lookup_idle
    /\ csv_idle

\* download, lines 27-43: the slug, the dashboard directory, the page
Download ==
    /\ pc = "idle"
    /\ \E url \in Urls :
         LET slug == _extract_slug(url) IN
         IF slug = <<>>
         THEN /\ pc' = "raised"
              /\ error' = "ValueError"
              /\ UNCHANGED <<soup, dirs, calls>>
         ELSE /\ dirs' = {"dashboard_dir"}
              /\ calls' = <<Call("_fetch_page", "<url>")>>
              /\ \/ /\ pc' = "raised"          \* session.get or raise_for_status raises
                    /\ error' = "RequestException"
                    /\ UNCHANGED soup
                 \/ \E page \in Pages :
                      /\ soup' = page
                      /\ pc' = "metadata"
                      /\ UNCHANGED error
    /\ UNCHANGED <<metadata, dashboard_data, next_cell, chart_count, processed_queries,
                   visualizations, writes>>
    /\ UNCHANGED <<leftover, cli>>
    /\ UNCHANGED resolver_vars
    /\ UNCHANGED locator_vars
    /\ UNCHANGED search_vars
    /\ UNCHANGED lookup_vars
    /\ UNCHANGED csv_vars

\* download, line 46
ExtractMetadata ==
    /\ pc = "metadata"
    /\ LET o == _extract_metadata(soup) IN
       IF o.status = "raise"
       THEN pc' = "raised" /\ error' = o.exc /\ UNCHANGED metadata
       ELSE pc' = "visualizations" /\ metadata' = o.value /\ UNCHANGED error
    /\ UNCHANGED <<soup, dirs, dashboard_data, next_cell, chart_count, processed_queries,
                   visualizations, calls, writes>>
    /\ UNCHANGED <<leftover, cli>>
    /\ UNCHANGED resolver_vars
    /\ UNCHANGED locator_vars
    /\ UNCHANGED search_vars
    /\ UNCHANGED lookup_vars
    /\ UNCHANGED csv_vars

\* download, lines 48-55; _extract_visualizations, lines 191-198;
\* _process_dashboard_visualizations, lines 221-235: up to the first cell
ExtractVisualizations ==
    /\ pc = "visualizations"
    /\ dirs' = dirs \cup {"dashboard_dir/visualizations", "dashboard_dir/assets"}
    /\ LET o == _extract_dashboard_data(soup.script_tags) IN
       IF o.status = "raise"
       THEN pc' = "raised" /\ error' = o.exc /\ UNCHANGED dashboard_data
       ELSE /\ dashboard_data' = o.value
            /\ UNCHANGED error
            /\ pc' = IF /\ dashboard_truthy(o.value)
                        /\ config_get(o.value).kind = "dict"     \* a null config: config.get raises, caught
                        /\ config_get(o.value).cells # <<>>
                     THEN "cells" ELSE "links"
    /\ next_cell' = 1
    /\ chart_count' = 0
    /\ processed_queries' = {}
    /\ visualizations' = <<>>
    /\ UNCHANGED <<soup, metadata, calls, writes>>
    /\ UNCHANGED <<leftover, cli>>
    /\ UNCHANGED resolver_vars
    /\ UNCHANGED locator_vars
    /\ UNCHANGED search_vars
    /\ UNCHANGED lookup_vars
    /\ UNCHANGED csv_vars

\* the pass stops: the loop is over, or an exception reached the handler of line 314
after_cell(aborted) ==
    IF aborted \/ next_cell = Len(config_get(dashboard_data).cells) THEN "links" ELSE "cells"

\* _process_dashboard_visualizations, lines 238-312: one turn of the loop
ProcessCell ==
    /\ pc = "cells"
    /\ LET d == dashboard_data
           config == config_get(d)
           cell == config.cells[next_cell]
           cell_id == cell.cell_id
           cell_data == cell.data
       IN
       IF cell_data.kind # "dict"
       THEN \* cell_data.get raises
            /\ pc' = after_cell(TRUE)
            /\ UNCHANGED <<dashboard_data, chart_count, processed_queries, visualizations,
                           calls, writes>>
       ELSE IF Get(cell_data.variant) # "visualization"
       THEN /\ pc' = after_cell(FALSE)
            /\ UNCHANGED <<dashboard_data, chart_count, processed_queries, visualizations,
                           calls, writes>>
       ELSE LET viz_content == IF config.contents[cell_id].kind = "absent" THEN EmptyContent
                               ELSE config.contents[cell_id]
                chart_type == _extract_chart_type(viz_content, d)
            IN
            /\ chart_count' = chart_count + 1
            /\ IF viz_content.kind # "dict"
               THEN \* viz_content.get('queryId') raises
                    /\ pc' = after_cell(TRUE)
                    /\ UNCHANGED <<dashboard_data, processed_queries, visualizations, calls, writes>>
               ELSE
               \E response \in LiveResponses, sql_page \in SqlPages, csv_hit \in CsvHits,
                  compass_ok \in BOOLEAN :
                 LET query_id == Get(viz_content.queryId)
                     vis_id == Get(viz_content.visId)
                     compass_id == _find_compass_id_for_query(query_id, d)
                     query_metadata == _get_query_metadata(query_id, d)
                     cc == _fetch_chart_config_from_api(vis_id, response)
                     chart_title == _extract_chart_title_with_api(viz_content, cell_data, d, cc)
                     axes_info == _extract_axes_info_with_api(viz_content, d, cc)
                     content_now == content_after_axes(viz_content, d)
                     viz_info == [id |-> chart_id(chart_count'), cell_id |-> cell_id,
                                  title |-> chart_title,
                                  type |-> final_chart_type(cc, chart_type),
                                  vis_id |-> vis_id, query_id |-> query_id,
                                  compass_id |-> compass_id,
                                  query_metadata |-> query_metadata,
                                  axes |-> axes_info, chart_config |-> cc]
                     enhanced_config == [kind |-> "config", id |-> viz_info.id,
                                         cell_id |-> cell_id, title |-> chart_title,
                                         type |-> viz_info.type, vis_id |-> vis_id,
                                         query_id |-> query_id, axes |-> axes_info,
                                         chart_config |-> cc,
                                         original_viz_content |-> content_now]
                     live_calls == IF live_fetch_called(vis_id)
                                   THEN <<Call("_fetch_chart_config_from_api", chart_api_url(vis_id))>>
                                   ELSE <<>>
                     first_time == not_seen_before(query_id, processed_queries)
                     q == IF first_time /\ hashable(query_id)
                          THEN process_query(query_id, compass_id, d, sql_page, csv_hit, compass_ok)
                          ELSE [calls |-> <<>>, writes |-> <<>>]
                 IN
                 \* an answer nobody asks for is not an input
                 /\ live_fetch_called(vis_id) \/ response = LiveFail
                 /\ (first_time /\ hashable(query_id)
                        /\ ~Truthy(find_statement_recursive(d.queries, query_id)))
                    \/ sql_page = NONE
                 /\ (first_time /\ hashable(query_id)
                        /\ ~Truthy(find_statement_recursive(d.queries, query_id))
                        /\ sql_page = NONE)
                    \/ csv_hit = 0
                 /\ (first_time /\ hashable(query_id) /\ Truthy(compass_id)) \/ ~compass_ok
                 /\ dashboard_data' =
                      IF config_key(d) = "publishedConfig"
                      THEN [d EXCEPT !.publishedConfig.contents[cell_id] =
                                IF @.kind = "absent" THEN @ ELSE content_now]
                      ELSE [d EXCEPT !.draftConfig.contents[cell_id] =
                                IF @.kind = "absent" THEN @ ELSE content_now]
                 /\ calls' = calls \o live_calls \o q.calls
                 /\ writes' = writes \o <<Write(config_file(chart_count'), enhanced_config)>>
                                     \o q.writes
                 /\ IF Truthy(query_id) /\ ~hashable(query_id)
                    THEN \* query_id not in processed_queries raises TypeError
                         /\ pc' = after_cell(TRUE)
                         /\ UNCHANGED <<processed_queries, visualizations>>
                    ELSE /\ pc' = after_cell(FALSE)
                         /\ processed_queries' = IF first_time
                                                 THEN processed_queries \cup {query_id}
                                                 ELSE processed_queries
                         /\ visualizations' = Append(visualizations, viz_info)
    /\ next_cell' = next_cell + 1
    /\ UNCHANGED <<error, soup, dirs, metadata>>
    /\ UNCHANGED <<leftover, cli>>
    /\ UNCHANGED resolver_vars
    /\ UNCHANGED locator_vars
    /\ UNCHANGED search_vars
    /\ UNCHANGED lookup_vars
    /\ UNCHANGED csv_vars

\* _extract_visualizations, lines 200-217: the anchors to /queries/ pages
QueryLinks ==
    /\ pc = "links"
    /\ \E sql_content \in [DOMAIN soup.links -> SqlPages] :
         /\ calls' = calls \o [i \in DOMAIN soup.links |->
                                 Call("_fetch_sql_query", urljoin(soup.links[i]))]
         /\ writes' = writes \o
              SelectSeq([i \in DOMAIN soup.links |->
                            IF Truthy(sql_content[i])
                            THEN Write(sql_file("query-" \o ToString(i)),
                                       [kind |-> "sql", text |-> sql_content[i]])
                            ELSE Write(NONE, [kind |-> "none"])],
                        LAMBDA w : w.file # NONE)
    /\ pc' = "outputs"
    /\ UNCHANGED <<error, soup, dirs, metadata, dashboard_data, next_cell, chart_count,
                   processed_queries, visualizations>>
    /\ UNCHANGED <<leftover, cli>>
    /\ UNCHANGED resolver_vars
    /\ UNCHANGED locator_vars
    /\ UNCHANGED search_vars
    /\ UNCHANGED lookup_vars
    /\ UNCHANGED csv_vars

\* download, lines 57-67: dashboard.md, metadata.json, index.html, the return
GenerateOutputs ==
    /\ pc = "outputs"
    /\ LET on_disk == leftover \o writes    \* exists() and glob() see the earlier run's files too
           md == Write("dashboard.md", markdown_content(metadata, visualizations, on_disk))
           json == Write("metadata.json", json_artifact(metadata, visualizations, on_disk))
           html == Write("index.html", html_content(metadata, visualizations, on_disk))
       IN  IF html_raises(visualizations)
           THEN /\ writes' = writes \o <<md, json>>
                /\ pc' = "raised"
                /\ error' = "TypeError"
           ELSE /\ writes' = writes \o <<md, json, html>>
                /\ pc' = "returned"
                /\ UNCHANGED error
    /\ UNCHANGED <<soup, dirs, metadata, dashboard_data, next_cell, chart_count,
                   processed_queries, visualizations, calls>>
    /\ UNCHANGED <<leftover, cli>>
    /\ UNCHANGED resolver_vars
    /\ UNCHANGED locator_vars
    /\ UNCHANGED search_vars
    /\ UNCHANGED lookup_vars
    /\ UNCHANGED csv_vars

\* a command line that exits with status 0 whatever download() did
CliExit_status_zero ==
    /\ pc \in {"returned", "raised"}
    /\ cli.status = "running"
    /\ cli' = [status |-> "exited", code |-> 0,
               out |-> IF pc = "returned"
                       THEN "Dashboard successfully downloaded to: dashboard_dir" ELSE NONE,
               err |-> IF pc = "raised" THEN "Error: " \o error ELSE NONE]
    /\ UNCHANGED <<pc, error, soup, dirs, metadata, dashboard_data, next_cell, chart_count,
                   processed_queries, visualizations, calls, writes, leftover>>
    /\ UNCHANGED resolver_vars
    /\ UNCHANGED locator_vars
    /\ UNCHANGED search_vars
    /\ UNCHANGED lookup_vars
    /\ UNCHANGED csv_vars

\* main.py, lines 26-30: the echo of the directory after download() returned; the handler
\* of any Exception that left it: the echo of the error to stderr and sys.exit(1)
CliExit ==
    /\ pc \in {"returned", "raised"}
    /\ cli.status = "running"
    /\ cli' = IF pc = "returned"
              THEN [status |-> "exited", code |-> 0,
                    out |-> "Dashboard successfully downloaded to: dashboard_dir", err |-> NONE]
              ELSE [status |-> "exited", code |-> 1, out |-> NONE, err |-> "Error: " \o error]
    /\ UNCHANGED <<pc, error, soup, dirs, metadata, dashboard_data, next_cell, chart_count,
                   processed_queries, visualizations, calls, writes, leftover>>
    /\ UNCHANGED resolver_vars
    /\ UNCHANGED locator_vars
    /\ UNCHANGED search_vars
    /\ UNCHANGED lookup_vars
    /\ UNCHANGED csv_vars

Next ==
    \/ Download
    \/ ExtractMetadata
    \/ ExtractVisualizations
    \/ ProcessCell
    \/ QueryLinks
    \/ GenerateOutputs
    \/ CliExit

Spec == Init /\ [][Next]_vars


-----------------------------------------------------------------------------
(* The state locator on its own: _extract_dashboard_data over script tags *)

\* two small dashboards that differ in their title
D1 == Dashboard("D1", EmptyConfig, AbsentConfig, <<>>)
D2 == Dashboard("D2", EmptyConfig, AbsentConfig, <<>>)

LoaderEntries ==
    {Entry(FALSE, FALSE, NoDashboard),      \* not a mapping
     Entry(TRUE, FALSE, NoDashboard),       \* a mapping without 'dashboard'
     Entry(TRUE, TRUE, NoDashboard),        \* 'dashboard': null
     Entry(TRUE, TRUE, D1), Entry(TRUE, TRUE, D2)}

JsonOutcomes ==
    {JsonError,
     JsonData("absent", FALSE, NoLoaderData),
     JsonData("null", FALSE, NoLoaderData),
     JsonData("str", FALSE, NoLoaderData),
     JsonData("str", TRUE, NoLoaderData),
     JsonData("dict", FALSE, NoLoaderData),
     JsonData("dict", TRUE, LoaderData("null", <<>>))}
    \cup {JsonData("dict", TRUE, LoaderData("dict", es)) : es \in SeqUpTo(LoaderEntries, MaxEntries)}

LocatorScripts ==
    {Script(FALSE, FALSE, -1, 0, JsonError),          \* no string
     Script(TRUE, FALSE, 0, 9, JsonError),            \* no marker
     Script(TRUE, FALSE, 0, 9, JsonData("dict", TRUE, LoaderData("dict", <<Entry(TRUE, TRUE, D2)>>))),
     Script(TRUE, TRUE, -1, 0, JsonError),            \* no brace
     Script(TRUE, TRUE, 5, 3, JsonError)}             \* the last '}' before the first '{'
    \cup {Script(TRUE, TRUE, 0, 9, j) : j \in JsonOutcomes}

InitLocate ==
    /\ pc = "off"
    /\ error = NONE
    /\ soup = NoSoup
    /\ dirs = {}
    /\ metadata = NoMetadata
    /\ dashboard_data = NoDashboard
    /\ next_cell = 1
    /\ chart_count = 0
    /\ processed_queries = {}
    /\ visualizations = <<>>
    /\ calls = <<>>
    /\ writes = <<>>
    /\ run_idle
    /\ resolver_idle
    /\ search_idle
    /\ lookup_idle
    /\ csv_idle
    /\ scripts \in SeqUpTo(LocatorScripts, MaxScripts)
    /\ located = [status |-> "off"]

ExtractDashboardData ==
    /\ located.status = "off"
    /\ located' = _extract_dashboard_data(scripts)
    /\ UNCHANGED scripts
    /\ UNCHANGED pipeline_vars
    /\ UNCHANGED resolver_vars
    /\ UNCHANGED search_vars
    /\ UNCHANGED lookup_vars
    /\ UNCHANGED csv_vars

NextLocate == ExtractDashboardData

SpecLocate == InitLocate /\ [][NextLocate]_vars

-----------------------------------------------------------------------------
(* The resolvers on their own: lines 245-263 for one visualization cell *)

TitleContents ==
    {Content("dict", id, title, displayName, label, visId, ABSENT, NoAxes) :
        id \in {ABSENT}, title \in {ABSENT, "", "Cell"}, displayName \in {ABSENT, "Display"},
        label \in {ABSENT, "Label"}, visId \in {ABSENT, "v1"}}
    \cup {Content("dict", id, ABSENT, ABSENT, ABSENT, ABSENT, ABSENT, NoAxes) :
            id \in {NONE, "7"}}
TitleDefs ==
    {NoDef} \cup {[NoDef EXCEPT !.kind = "dict", !.title = t, !.displayName = n] :
                    t \in {ABSENT, "DefTitle"}, n \in {ABSENT, "", "DefDisplay"}}

TypeContents ==
    {Content("dict", ABSENT, title, ABSENT, ABSENT, visId, ABSENT, NoAxes) :
        title \in {ABSENT, NONE, "Cell", "Pie BAR", "Timeline"}, visId \in {ABSENT, "v1"}}
TypeDefs ==
    {NoDef} \cup {[NoDef EXCEPT !.kind = "dict", !.chartType = a, !.type = b, !.chart_type = c] :
                    a \in {ABSENT, "", "bar"}, b \in {ABSENT, "area"}, c \in {ABSENT, "donut"}}

AxesValues ==
    {NoAxes, NullAxes,
     AxesDict([EmptyMap EXCEPT !["xAxis"] = "cell.x"]),
     AxesDict([EmptyMap EXCEPT !["yAxis"] = "cell.y", !["subtitle"] = "cell.sub"])}
AxesContents ==
    {Content("dict", ABSENT, ABSENT, ABSENT, ABSENT, visId, ABSENT, axes) :
        visId \in {ABSENT, "v1"}, axes \in AxesValues}
AxesDefs ==
    {NoDef} \cup {[NoDef EXCEPT !.kind = "dict", !.axes = a, !.xAxis = x, !.yAxis = y] :
                    a \in {NoAxes, NullAxes,
                           AxesDict([EmptyMap EXCEPT !["xAxis"] = "defaxes.x",
                                                     !["subtitle"] = "defaxes.sub"])},
                    x \in {ABSENT, "def.x"}, y \in {ABSENT, "def.y"}}

\* the blob around one cell: a published configuration with the definition under v1
CellDashboard(viz_def) ==
    Dashboard("T", [EmptyConfig EXCEPT !.visualizations["v1"] = viz_def], AbsentConfig, <<>>)

\* answers of the live chart-configuration collaborator
ResolverResponses ==
    {LiveFail} \cup {LiveOk(type, title, subtitle, xAxis, yAxis) :
                        type \in {ABSENT, NONE, "line"}, title \in {ABSENT, "Live"},
                        subtitle \in {ABSENT, "live.sub"}, xAxis \in {ABSENT, "{}", "live.x"},
                        yAxis \in {ABSENT, "live.y"}}

\* a cell with what the collaborator answers when asked
ResolverInput(viz_content, cell_title, viz_def, response) ==
    [viz_content |-> viz_content, cell_data |-> CellData("dict", "visualization", cell_title),
     dashboard_data |-> CellDashboard(viz_def), response |-> response]

\* three families of cells: each varies what one resolver reads
ResolverCells ==
    (TitleContents \X {ABSENT, "Layout"} \X TitleDefs)
    \cup (TypeContents \X {ABSENT} \X TypeDefs)
    \cup (TypeContents \X {"Scatter Table"} \X {NoDef})
    \cup (AxesContents \X {ABSENT} \X AxesDefs)

NoResults == [chart_type |-> NONE, title |-> NONE, axes |-> NoAxes, type |-> NONE]

InitResolve ==
    /\ pc = "off"
    /\ error = NONE
    /\ soup = NoSoup
    /\ dirs = {}
    /\ metadata = NoMetadata
    /\ dashboard_data = NoDashboard
    /\ next_cell = 1
    /\ chart_count = 0
    /\ processed_queries = {}
    /\ visualizations = <<>>
    /\ calls = <<>>
    /\ writes = <<>>
    /\ run_idle
    /\ locator_idle
    /\ search_idle
    /\ lookup_idle
    /\ csv_idle
    /\ r_pc = "chart_type"
    /\ \E cell \in ResolverCells, response \in ResolverResponses :
         /\ live_fetch_called(Get(cell[1].visId)) \/ response = LiveFail
         /\ r_in = ResolverInput(cell[1], cell[2], cell[3], response)
    /\ chart_config = NoChartConfig
    /\ r_out = NoResults

\* line 246
ExtractChartType ==
    /\ r_pc = "chart_type"
    /\ r_out' = [r_out EXCEPT !.chart_type = _extract_chart_type(r_in.viz_content, r_in.dashboard_data)]
    /\ r_pc' = "chart_config"
    /\ UNCHANGED <<r_in, chart_config>>
    /\ UNCHANGED pipeline_vars
    /\ UNCHANGED locator_vars
    /\ UNCHANGED search_vars
    /\ UNCHANGED lookup_vars
    /\ UNCHANGED csv_vars

\* line 254
FetchChartConfig ==
    /\ r_pc = "chart_config"
    /\ chart_config' = _fetch_chart_config_from_api(Get(r_in.viz_content.visId), r_in.response)
    /\ r_pc' = "chart_title"
    /\ UNCHANGED <<r_in, r_out>>
    /\ UNCHANGED pipeline_vars
    /\ UNCHANGED locator_vars
    /\ UNCHANGED search_vars
    /\ UNCHANGED lookup_vars
    /\ UNCHANGED csv_vars

\* line 257
ExtractChartTitle ==
    /\ r_pc = "chart_title"
    /\ r_out' = [r_out EXCEPT !.title =
                    _extract_chart_title_with_api(r_in.viz_content, r_in.cell_data,
                                                  r_in.dashboard_data, chart_config)]
    /\ r_pc' = "axes"
    /\ UNCHANGED <<r_in, chart_config>>
    /\ UNCHANGED pipeline_vars
    /\ UNCHANGED locator_vars
    /\ UNCHANGED search_vars
    /\ UNCHANGED lookup_vars
    /\ UNCHANGED csv_vars

\* lines 260-263
ExtractAxesInfo ==
    /\ r_pc = "axes"
    /\ r_out' = [r_out EXCEPT
                    !.axes = _extract_axes_info_with_api(r_in.viz_content, r_in.dashboard_data,
                                                         chart_config),
                    !.type = final_chart_type(chart_config, r_out.chart_type)]
    /\ r_in' = [r_in EXCEPT !.viz_content = content_after_axes(r_in.viz_content, r_in.dashboard_data)]
    /\ r_pc' = "done"
    /\ UNCHANGED chart_config
    /\ UNCHANGED pipeline_vars
    /\ UNCHANGED locator_vars
    /\ UNCHANGED search_vars
    /\ UNCHANGED lookup_vars
    /\ UNCHANGED csv_vars

NextResolve ==
    \/ ExtractChartType
    \/ FetchChartConfig
    \/ ExtractChartTitle
    \/ ExtractAxesInfo

SpecResolve == InitResolve /\ [][NextResolve]_vars


-----------------------------------------------------------------------------
(* Properties of download(), under Spec *)

\* the dashboard the page carries, NoDashboard when the locator finds none or raises
page_dashboard ==
    LET o == _extract_dashboard_data(soup.script_tags)
    IN  IF o.status = "ok" THEN o.value ELSE NoDashboard

is_viz_cell(cell) == cell.data.kind = "dict" /\ Get(cell.data.variant) = "visualization"
viz_cells(config) == SelectSeq(config.cells, is_viz_cell)

\* every cell entry is an object and every visualization cell's content is an object
\* whose queryId, when it has one, is a string
cells_well_formed(config) ==
    \A i \in DOMAIN config.cells :
        /\ config.cells[i].data.kind = "dict"
        /\ is_viz_cell(config.cells[i]) =>
              /\ config.contents[config.cells[i].cell_id].kind # "null"
              /\ hashable(config.contents[config.cells[i].cell_id].queryId)

download_over == pc \in {"returned", "raised"}

\* C1: when the pass over the cells of a configuration is over, the descriptors are those
\* of its N visualization cells, in iteration order, with the ids chart-1 .. chart-N:
\* dense, unique, none skipped.
C1_DenseChartIds ==
    (pc = "links" /\ dashboard_truthy(dashboard_data) /\ config_get(dashboard_data).kind = "dict")
    => LET cells == viz_cells(config_get(dashboard_data)) IN
       /\ Len(visualizations) = Len(cells)
       /\ \A i \in DOMAIN visualizations :
            /\ visualizations[i].id = chart_id(i)
            /\ visualizations[i].cell_id = cells[i].cell_id

\* the requests of one collaborator to one URL
requests(fn, url) == {i \in DOMAIN calls : calls[i] = Call(fn, url)}
\* the visualization cells of the selected configuration whose content names query q
cells_of_query(d, q) ==
    {i \in DOMAIN config_get(d).cells :
        /\ is_viz_cell(config_get(d).cells[i])
        /\ config_get(d).contents[config_get(d).cells[i].cell_id].kind = "dict"
        /\ config_get(d).contents[config_get(d).cells[i].cell_id].queryId = q}

\* C2: for a query id that two or more visualization cells reference, the whole download
\* holds no second SQL fetch of that id's studio page and no second result fetch of its
\* compass id: each collaborator is asked once for the id and never again.
C2_FetchOncePerQuery ==
    (download_over /\ dashboard_truthy(dashboard_data) /\ config_get(dashboard_data).kind = "dict")
    => \A q \in QueryIds :
         Cardinality(cells_of_query(dashboard_data, q)) >= 2
         => /\ Cardinality(requests("_fetch_sql_query", studio_url(q))) <= 1
            /\ \A k \in {"k1", "k2"} :
                 Cardinality(requests("_fetch_csv_data_from_compass", compass_url(k))) <= 1

\* the writes of one file
writes_of(file) == {i \in DOMAIN writes : writes[i].file = file}

\* C3: an artifact of a query id (assets/<id>.sql, assets/<id>.csv) is written at most
\* once in a download, so what the first resolution wrote is what stays on disk.
C3_ArtifactWrittenOnce ==
    \A q \in QueryIds :
        /\ Cardinality(writes_of(sql_file(q))) <= 1
        /\ Cardinality(writes_of(csv_file(q))) <= 1

\* C4: download() raises only for the fatal category: a URL with no slug, or the
\* dashboard page that cannot be fetched.
C4_RaisesOnlyFatal ==
    pc = "raised" => error \in {"ValueError", "RequestException"}

outputs_written ==
    /\ file_exists(writes, "dashboard.md")
    /\ file_exists(writes, "metadata.json")
    /\ file_exists(writes, "index.html")

\* C5: a download whose slug resolves and whose page is fetched, over a page whose
\* configuration holds objects where objects are expected, ends by returning with
\* dashboard.md, metadata.json and index.html written, also when a visualization cell
\* has no queryId.
C5_CompletesWithOutputs ==
    (download_over /\ soup # NoSoup /\ dashboard_truthy(page_dashboard)
        /\ config_get(page_dashboard).kind = "dict"
        /\ cells_well_formed(config_get(page_dashboard)))
    => (pc = "returned" /\ outputs_written)

\* the configuration the descriptors are to come from: the published one when it is
\* present and not null, the draft one otherwise
intended_config(d) ==
    IF d.publishedConfig.kind = "dict" THEN d.publishedConfig
    ELSE IF d.draftConfig.kind = "dict" THEN d.draftConfig
    ELSE EmptyConfig

\* C6: the descriptors are those of the visualization cells of the published
\* configuration when it is present and non-null and of the draft configuration
\* otherwise; a null publishedConfig beside a draftConfig yields the draft's cells.
C6_PublishedElseDraft ==
    (download_over /\ soup # NoSoup /\ dashboard_truthy(page_dashboard)
        /\ cells_well_formed(intended_config(page_dashboard)))
    => LET cells == viz_cells(intended_config(page_dashboard)) IN
       /\ Len(visualizations) = Len(cells)
       /\ \A i \in DOMAIN visualizations : visualizations[i].cell_id = cells[i].cell_id

-----------------------------------------------------------------------------
(* Properties of the state locator, under SpecLocate *)

\* C7: _extract_dashboard_data is total: over any script tags it returns a dashboard or
\* nothing and never raises, whatever the types of state, loaderData and its entries.
C7_LocatorTotal ==
    located.status \in {"off", "ok"}


-----------------------------------------------------------------------------
(* Properties of the resolvers of one cell, under SpecResolve *)

\* the definition the configuration holds under the cell's visId, NoDef without one
looked_up_def ==
    IF Truthy(Get(r_in.viz_content.visId))
    THEN r_in.dashboard_data.publishedConfig.visualizations[r_in.viz_content.visId]
    ELSE NoDef

RECURSIVE first_non_empty(_)
first_non_empty(values) ==
    IF values = <<>> THEN NONE
    ELSE IF Truthy(Head(values)) THEN Head(values)
    ELSE first_non_empty(Tail(values))

\* the title sources of a cell, highest priority first
title_sources ==
    <<Get(chart_config.title), Get(r_in.viz_content.title), Get(r_in.cell_data.title),
      Get(r_in.viz_content.displayName), Get(r_in.viz_content.label),
      Get(looked_up_def.title), Get(looked_up_def.displayName)>>

GeneratedLabels == {"Chart Unknown", "Chart None", "Chart 7", "Untitled Chart"}

\* C8: the resolved title is the first non-empty of: live title, content title, layout
\* title, content displayName, content label, definition title, definition displayName;
\* with none of them it is a generated fallback label; it is never empty.
C8_TitlePrecedence ==
    r_pc \in {"axes", "done"}
    => /\ IF Truthy(first_non_empty(title_sources))
          THEN r_out.title = first_non_empty(title_sources)
          ELSE r_out.title \in GeneratedLabels
       /\ Truthy(r_out.title)

\* a live title and a content title both there, and the live one resolved
C8_LiveTitleWins ==
    /\ r_pc = "done"
    /\ chart_config.title = "Live"
    /\ r_in.viz_content.title = "Cell"
    /\ r_in.cell_data.title = "Layout"
    /\ r_out.title = "Live"

\* the kind C9 describes
claimed_kind ==
    IF ~Truthy(Get(r_in.viz_content.visId)) THEN "unknown"
    ELSE IF r_in.response.status = "ok" /\ Truthy(Get(r_in.response.type))
    THEN r_in.response.type
    ELSE IF Truthy(first_non_empty(<<Get(looked_up_def.chartType), Get(looked_up_def.type),
                                     Get(looked_up_def.chart_type)>>))
    THEN first_non_empty(<<Get(looked_up_def.chartType), Get(looked_up_def.type),
                           Get(looked_up_def.chart_type)>>)
    ELSE IF Truthy(Get(r_in.viz_content.title))
    THEN keyword_kind(lower(Chars(r_in.viz_content.title)))
    ELSE "chart"

\* C9: the resolved kind is the live type when the live fetch supplies one; else the
\* first non-empty of the definition's chartType, type, chart_type; else a keyword of
\* the title; else 'chart', also after a live fetch that succeeded without a type.  A
\* cell without visId resolves to 'unknown'.
C9_KindResolution ==
    r_pc = "done" => r_out.type = claimed_kind

\* C25: when neither the live configuration nor the definition supplies a kind, the kind
\* is the first of bar, line, pie, histogram, scatter, table that occurs, letter case
\* aside, in the cell's resolved title, whichever source that title came from, and
\* 'chart' when none occurs; a missing or null content title does not prevent the match.
C25_KeywordOfResolvedTitle ==
    /\ r_pc = "done"
    /\ Truthy(Get(r_in.viz_content.visId))
    /\ ~(r_in.response.status = "ok" /\ Truthy(Get(r_in.response.type)))
    /\ ~Truthy(first_non_empty(<<Get(looked_up_def.chartType), Get(looked_up_def.type),
                                 Get(looked_up_def.chart_type)>>))
    => r_out.type = keyword_kind(lower(Chars(r_out.title)))

\* the value the live configuration supplies for an axes key
live_value(k) ==
    CASE k = "xAxis" -> Get(chart_config.xAxis)
      [] k = "yAxis" -> Get(chart_config.yAxis)
      [] OTHER -> Get(chart_config.subtitle)

\* C10: in the resolved axes every key (xAxis, yAxis, subtitle) for which the live
\* configuration supplies a non-empty value holds exactly the live value: the content's
\* and the definition's axes fill only the keys the live data left missing.
C10_LiveAxesKept ==
    r_pc = "done"
    => \A k \in AxKeys :
         Truthy(live_value(k)) => (r_out.axes.kind = "dict" /\ r_out.axes.m[k] = live_value(k))


-----------------------------------------------------------------------------
(* Further properties of download(), under Spec *)

\* C11: during one pass the live chart-configuration collaborator is asked once for
\* each visId that a processed cell carries, however many cells share it, and never for
\* a visId no cell carries.
C11_LiveFetchOncePerVisId ==
    pc = "links"
    => \A v \in VisIds :
         Cardinality(requests("_fetch_chart_config_from_api", chart_api_url(v)))
           = IF \E i \in DOMAIN visualizations : visualizations[i].vis_id = v THEN 1 ELSE 0


\* the content and the layout entry of a cell as the page carries them
parsed_content(cell_id) ==
    IF config_get(page_dashboard).contents[cell_id].kind = "absent" THEN EmptyContent
    ELSE config_get(page_dashboard).contents[cell_id]
parsed_cell_data(cell_id) ==
    LET cells == config_get(page_dashboard).cells
    IN  cells[CHOOSE i \in DOMAIN cells : cells[i].cell_id = cell_id].data

\* C12: a live fetch that fails leaves the empty configuration and stops nothing: every
\* visualization cell of a well-formed configuration still gets its descriptor, and the
\* title, kind and axes of a descriptor without live configuration are those the
\* embedded sources give for its cell.
C12_LiveFailureNotFatal ==
    (pc = "links" /\ dashboard_truthy(page_dashboard)
        /\ config_get(page_dashboard).kind = "dict"
        /\ cells_well_formed(config_get(page_dashboard)))
    => /\ Len(visualizations) = Len(viz_cells(config_get(page_dashboard)))
       /\ \A i \in DOMAIN visualizations :
            ~visualizations[i].chart_config.present
            => LET content == parsed_content(visualizations[i].cell_id)
                   cell_data == parsed_cell_data(visualizations[i].cell_id)
               IN  /\ visualizations[i].chart_config = NoChartConfig
                   /\ visualizations[i].title
                        = _extract_chart_title(content, cell_data, page_dashboard)
                   /\ visualizations[i].type = _extract_chart_type(content, page_dashboard)
                   /\ visualizations[i].axes = _extract_axes_info(content, page_dashboard)

\* a cell with a visId whose live fetch failed, resolved from its definition
C12_FailedFetchResolved ==
    /\ pc = "links"
    /\ \E i \in DOMAIN visualizations :
         /\ visualizations[i].vis_id = "v1"
         /\ Call("_fetch_chart_config_from_api", chart_api_url("v1")) \in Range(calls)
         /\ visualizations[i].chart_config = NoChartConfig
         /\ visualizations[i].title = "DefTitle"
         /\ visualizations[i].type = "bar"
         /\ visualizations[i].axes = AxesDict([EmptyMap EXCEPT !["xAxis"] = "def.x"])


\* the query ids of the descriptors
described_queries == {visualizations[i].query_id : i \in DOMAIN visualizations} \cap QueryIds

\* C13: for a query id that a cell references, the blob is searched for an inline
\* statement first; the SQL-fetch collaborator is asked for the id only when the search
\* found none, never when it found one; the result fetch comes after both.
C13_SearchThenSqlThenResult ==
    (download_over /\ dashboard_truthy(dashboard_data))
    => \A q \in described_queries :
         /\ Truthy(find_statement_recursive(dashboard_data.queries, q))
              => requests("_fetch_sql_query", studio_url(q)) = {}
         /\ \A i \in requests("_fetch_sql_query", studio_url(q)) :
              \A j \in DOMAIN calls :
                 calls[j] = Call("_fetch_csv_data_from_compass",
                                 compass_url(_find_compass_id_for_query(q, dashboard_data)))
                 => i < j


\* C14: for a query id without compass id (no lastSuccessfulCompassId, no
\* lastExecutedCompassId, or no record in queries) the download requests no result data
\* and writes no assets/<id>.csv.
C14_NoCompassNoResult ==
    dashboard_truthy(dashboard_data)
    => \A q \in QueryIds :
         ~Truthy(_find_compass_id_for_query(q, dashboard_data))
         => /\ writes_of(csv_file(q)) = {}
            /\ \A i \in DOMAIN calls :
                 /\ calls[i] # Call("_try_fetch_csv_data", csv_urls(q)[1])
                 /\ calls[i] # Call("_try_fetch_csv_data", csv_urls(q)[2])

-----------------------------------------------------------------------------
(* The statement search on its own: find_statement_recursive over JSON values *)

Statements == {ABSENT, "", "SELECT a", "SELECT b"}

\* objects without nested values
LeafObjects == {Obj(id, statement, <<>>) : id \in QueryIds, statement \in Statements}
\* values with leaves under them
InnerValues ==
    LeafObjects
    \cup {Obj(ABSENT, ABSENT, vs) : vs \in SeqUpTo(LeafObjects, MaxValues)}
    \cup {List(vs) : vs \in SeqUpTo(LeafObjects, MaxValues)}
    \cup {Scalar}
\* what the root mapping itself carries under 'id' and 'statement'
RootHeads == {<<ABSENT, ABSENT>>, <<"q1", "">>, <<"q1", "SELECT a">>}

InitSearch ==
    /\ pc = "off"
    /\ error = NONE
    /\ soup = NoSoup
    /\ dirs = {}
    /\ metadata = NoMetadata
    /\ dashboard_data = NoDashboard
    /\ next_cell = 1
    /\ chart_count = 0
    /\ processed_queries = {}
    /\ visualizations = <<>>
    /\ calls = <<>>
    /\ writes = <<>>
    /\ run_idle
    /\ resolver_idle
    /\ locator_idle
    /\ lookup_idle
    /\ csv_idle
    /\ \E head \in RootHeads, values \in SeqUpTo(InnerValues, MaxValues), target \in QueryIds :
         search_in = [data |-> Obj(head[1], head[2], values), target_query_id |-> target]
    /\ search_out = [status |-> "off"]

\* line 578
FindStatement ==
    /\ search_out.status = "off"
    /\ search_out' = Return(find_statement_walk(search_in.data, search_in.target_query_id))
    /\ UNCHANGED search_in
    /\ UNCHANGED pipeline_vars
    /\ UNCHANGED resolver_vars
    /\ UNCHANGED locator_vars
    /\ UNCHANGED lookup_vars
    /\ UNCHANGED csv_vars

NextSearch == FindStatement

SpecSearch == InitSearch /\ [][NextSearch]_vars

-----------------------------------------------------------------------------
(* Properties of the statement search, under SpecSearch *)

\* the mappings of a JSON value in depth-first encounter order
RECURSIVE objects_in_order(_), objects_of_all(_)
objects_in_order(data) ==
    IF data.type = "dict" THEN <<data>> \o objects_of_all(data.values)
    ELSE IF data.type = "list" THEN objects_of_all(data.values)
    ELSE <<>>
objects_of_all(values) ==
    IF values = <<>> THEN <<>>
    ELSE objects_in_order(Head(values)) \o objects_of_all(Tail(values))

\* the statement of the first mapping, in that order, that has the target id and a
\* 'statement' key; NONE when there is none
first_match_statement(data, target_query_id) ==
    LET matches == SelectSeq(objects_in_order(data),
                             LAMBDA o : Get(o.id) = target_query_id /\ o.statement # ABSENT)
    IN  IF matches = <<>> THEN NONE ELSE Head(matches).statement

\* C15: the search returns the statement of the first mapping, in depth-first encounter
\* order, whose id is the target and which has a 'statement' key, and stops there: no
\* mapping visited later changes the result; it returns nothing when no mapping matches.
C15_FirstMatchWins ==
    search_out.status = "ok"
    => LET first == first_match_statement(search_in.data, search_in.target_query_id)
       IN  IF Truthy(first) THEN search_out.value = first
           ELSE ~Truthy(search_out.value)

-----------------------------------------------------------------------------
(* Successive runs and the command line, under Spec *)

\* the query and chart files this run itself wrote
run_files ==
    SelectSeq(writes, LAMBDA w : w.file \notin {"dashboard.md", "metadata.json", "index.html"})

\* C19: nothing persists across runs: what a run writes to dashboard.md (the SQL and
\* Resultset lines, the data-source files), to metadata.json (the sql_file and csv_file
\* references) and to index.html (the chart scripts) is determined by what this run
\* itself extracted and wrote, whatever files an earlier run left in the directory.
C19_OutputsOfThisRunOnly ==
    \A i \in DOMAIN writes :
        /\ writes[i].file = "dashboard.md"
           => writes[i].content = markdown_content(metadata, visualizations, run_files)
        /\ writes[i].file = "metadata.json"
           => writes[i].content = json_artifact(metadata, visualizations, run_files)
        /\ writes[i].file = "index.html"
           => writes[i].content = html_content(metadata, visualizations, run_files)

\* download() raised for one of its two fatal reasons
fatal_abort == pc = "raised" /\ error \in {"ValueError", "RequestException"}

\* C20: when the URL has no slug or the page fetch fails, download() raises before any
\* metadata, visualization or output step has run: no metadata, no descriptor, no
\* request beyond the page fetch, no file; the command line then echoes the error to
\* stderr and exits with status 1.  When download() returns, the command line echoes
\* the directory path and exits normally.
C20_FatalAbortsAndExit ==
    /\ fatal_abort
       => /\ metadata = NoMetadata
          /\ dashboard_data = NoDashboard
          /\ visualizations = <<>>
          /\ chart_count = 0
          /\ writes = <<>>
          /\ \A i \in DOMAIN calls : calls[i].fn = "_fetch_page"
    /\ cli.status = "exited" /\ pc = "raised"
       => cli.code = 1 /\ cli.err = "Error: " \o error /\ cli.out = NONE
    /\ cli.status = "exited" /\ pc = "returned"
       => /\ cli.code = 0
          /\ cli.out = "Dashboard successfully downloaded to: dashboard_dir"
          /\ cli.err = NONE
    /\ cli.status = "exited" => pc \in {"raised", "returned"}

\* the page fetch failed and the command line has exited
C20_PageFetchFailedExit ==
    /\ pc = "raised"
    /\ error = "RequestException"
    /\ calls = <<Call("_fetch_page", "<url>")>>
    /\ cli.status = "exited"

\* the metadata.json files written
emitted_artifacts == {writes[i].content : i \in {j \in DOMAIN writes : writes[j].file = "metadata.json"}}

\* C21: in the emitted metadata.json, total_charts is the length of the visualizations
\* list, unique_queries is the number of keys of the queries mapping, the keys of the
\* queries mapping are exactly the non-empty query ids of the visualization entries, and
\* the visualizations list follows the descriptors in order, each entry's config_file
\* being visualizations/<chart_id>.json.
C21_ArtifactConsistent ==
    \A artifact \in emitted_artifacts :
        LET keys == {query.query_id : query \in artifact.queries}
            entries == artifact.visualizations
        IN  /\ artifact.total_charts = Len(entries)
            /\ artifact.unique_queries = Cardinality(keys)
            /\ Cardinality(artifact.queries) = Cardinality(keys)
            /\ \A i \in DOMAIN entries : Truthy(entries[i].query_id) => entries[i].query_id \in keys
            /\ \A k \in keys : \E i \in DOMAIN entries : entries[i].query_id = k
            /\ Len(entries) = Len(visualizations)
            /\ \A i \in DOMAIN entries :
                 /\ entries[i].chart_id = visualizations[i].id
                 /\ entries[i].cell_id = visualizations[i].cell_id
                 /\ entries[i].config_file = "visualizations/" \o entries[i].chart_id \o ".json"

\* a metadata.json was written for two descriptors that share one query id
C21_TwoChartsOneQuery ==
    \E artifact \in emitted_artifacts :
        /\ Len(artifact.visualizations) = 2
        /\ artifact.visualizations[1].query_id = "q1"
        /\ artifact.visualizations[2].query_id = "q1"
        /\ artifact.unique_queries = 1

\* the cells of the page's configuration whose variant is text, markdown or text-markdown
\* and that have markup or a title
text_cells_with_content ==
    LET config == IF dashboard_truthy(page_dashboard) THEN config_get(page_dashboard)
                  ELSE AbsentConfig
    IN  IF config.kind # "dict" THEN {}
        ELSE {config.cells[i].cell_id : i \in
                {j \in DOMAIN config.cells :
                    /\ config.cells[j].data.kind = "dict"
                    /\ Get(config.cells[j].data.variant) \in {"text", "markdown", "text-markdown"}
                    /\ \/ Truthy(Get(config.contents[config.cells[j].cell_id].html))
                       \/ Truthy(Get(config.cells[j].data.title))}}

\* the cell ids the extraction result speaks of: the returned list and metadata.json
result_cells ==
    {visualizations[i].cell_id : i \in DOMAIN visualizations}
    \cup UNION {{artifact.visualizations[i].cell_id : i \in DOMAIN artifact.visualizations} :
                    artifact \in emitted_artifacts}

\* C23: every cell whose variant is text, markdown or text-markdown and that has markup
\* (html, text, content or description) or a title contributes one block to the result
\* of the extraction.
C23_TextCellsContribute ==
    pc = "returned" => text_cells_with_content \subseteq result_cells

\* the configuration the pass reads, an absent one when the page gives no dashboard
page_config ==
    IF dashboard_truthy(page_dashboard) THEN config_get(page_dashboard) ELSE AbsentConfig

\* a visualization cell whose own resolution meets no failure: its entry is an object and
\* its content is absent or an object whose queryId, if any, is a string
resolvable_cells ==
    IF page_config.kind # "dict" THEN {}
    ELSE {page_config.cells[i].cell_id : i \in
            {j \in DOMAIN page_config.cells :
                /\ is_viz_cell(page_config.cells[j])
                /\ page_config.contents[page_config.cells[j].cell_id].kind # "null"
                /\ hashable(page_config.contents[page_config.cells[j].cell_id].queryId)}}

\* C24: a failure while resolving one visualization cell affects that cell only: when
\* the pass is over, every visualization cell whose own resolution does not fail has its
\* descriptor, whatever happened to the cells before and after it.
C24_FailureStaysInCell ==
    pc \in {"links", "outputs", "returned"}
    => resolvable_cells \subseteq {visualizations[i].cell_id : i \in DOMAIN visualizations}

\* the title the state blob gives: the root header's dashboardTitle, else the dashboard's
blob_title ==
    IF ~dashboard_truthy(page_dashboard) THEN NONE
    ELSE IF page_config.kind = "dict" /\ page_config.root_header.dashboardTitle # ABSENT
    THEN page_config.root_header.dashboardTitle
    ELSE Get(page_dashboard.title)

\* C26: pattern-matched HTML is a last resort: the title of the metadata is the blob's
\* whenever the blob gives one, and the scan of the anchors to /queries/ pages, with its
\* SQL fetch per anchor, issues no request when the blob yielded descriptors.
C26_HtmlLastResort ==
    /\ [](metadata # NoMetadata /\ Truthy(blob_title) => metadata.title = blob_title)
    /\ [][pc = "links" /\ visualizations # <<>> => calls' = calls]_vars

\* the chart configuration files written by the pass
config_files_written ==
    {writes[i].file : i \in {j \in DOMAIN writes : writes[j].content.kind = "config"}}

\* the chart configuration files of the descriptors the pass returned
config_files_returned ==
    {"visualizations/" \o visualizations[i].id \o ".json" : i \in DOMAIN visualizations}

\* C28: after any pass the chart configuration files written are exactly those of the
\* descriptors returned, also when the pass stopped early on an error.
C28_FilesAreDescriptors ==
    pc \in {"links", "outputs", "returned"} => config_files_written = config_files_returned

\* the query id of the content of the cell the loop is at, NONE when the cell is no
\* visualization cell with a content that has one
query_id_at_hand ==
    IF pc # "cells" THEN NONE
    ELSE LET config == config_get(dashboard_data)
             cell == config.cells[next_cell]
         IN IF cell.data.kind # "dict" \/ Get(cell.data.variant) # "visualization" THEN NONE
            ELSE IF config.contents[cell.cell_id].kind # "dict" THEN NONE
            ELSE Get(config.contents[cell.cell_id].queryId)

\* the requests and the files a step of the pass adds
added_calls == {calls'[i] : i \in (Len(calls) + 1)..Len(calls')}
added_writes == {writes'[i] : i \in (Len(writes) + 1)..Len(writes')}

\* C29: a query id is marked processed when its extraction is first attempted, and a
\* cell whose query id is already marked makes no further attempt: it sends no request
\* for SQL or results and writes no SQL or result file, so a query whose first attempt
\* failed has no file for the whole pass.
C29_FailedNotRetried ==
    [][/\ pc = "cells" /\ query_id_at_hand \in processed_queries
          => /\ \A c \in added_calls : c.fn = "_fetch_chart_config_from_api"
             /\ \A w \in added_writes : w.content.kind = "config"
       /\ pc = "cells" /\ Truthy(query_id_at_hand) /\ hashable(query_id_at_hand)
          => query_id_at_hand \in processed_queries'
      ]_vars

\* two cells that name q1 have their descriptors, the extraction for q1 was attempted
\* once at the query page and failed, and q1 has no SQL or result file
C29_SharedQueryFailedOnce ==
    /\ pc = "links"
    /\ Len(visualizations) = 2
    /\ \A i \in DOMAIN visualizations : visualizations[i].query_id = "q1"
    /\ Cardinality({i \in DOMAIN calls : calls[i].fn = "_fetch_sql_query"}) = 1
    /\ ~file_exists(writes, sql_file("q1"))
    /\ ~file_exists(writes, csv_file("q1"))

\* the directories under the output directory before the call: those an earlier run of
\* the same dashboard left with its files
dirs_before ==
    IF leftover = <<>> THEN {} ELSE {"dashboard_dir", "dashboard_dir/assets"}

\* C30: when download() aborts on an unresolvable slug or a failed page fetch it has
\* created nothing: no directory that did not exist before the call, and no file.
C30_AbortCreatesNothing ==
    fatal_abort => dirs \ dirs_before = {} /\ writes = <<>>

-----------------------------------------------------------------------------
(* The state blob during the resolution of a cell, under SpecResolve *)

\* C18: the decoded state blob is read-only: no step of a cell's resolution (kind, live
\* configuration, title, axes) changes the cell's content or any other mapping of the
\* blob, so the content recorded as original_viz_content is the content as parsed.
C18_BlobReadOnly ==
    [][/\ r_in'.viz_content = r_in.viz_content
       /\ r_in'.cell_data = r_in.cell_data
       /\ r_in'.dashboard_data = r_in.dashboard_data]_vars

\* what a second resolution of the cell gives, over the blob as the first one left it and
\* with the collaborator answering as before
second_pass ==
    LET d == r_in.dashboard_data
        chart_type == _extract_chart_type(r_in.viz_content, d)
        cc == _fetch_chart_config_from_api(Get(r_in.viz_content.visId), r_in.response)
    IN  [chart_type |-> chart_type,
         title |-> _extract_chart_title_with_api(r_in.viz_content, r_in.cell_data, d, cc),
         axes |-> _extract_axes_info_with_api(r_in.viz_content, d, cc),
         type |-> final_chart_type(cc, chart_type)]

-----------------------------------------------------------------------------
(* The lookups by query id, on their own: specification SpecLookup *)

MaxRecords == 2

\* the compass ids a record of the queries list carries: <<lastSuccessfulCompassId, lastExecutedCompassId>>
LookupCompassIds ==
    {<<ABSENT, ABSENT>>, <<"k1", ABSENT>>, <<"k1", "k2">>, <<ABSENT, "k2">>,
     <<"", "k2">>, <<NONE, "k2">>, <<"", "">>}
\* its timestamps: <<lastExecutedAt, lastSuccessfulExecutionAt, resultLastAccessedAt>>
LookupTimes == {<<ABSENT, ABSENT, ABSENT>>, <<"t1", "t2", "t3">>, <<"t4", ABSENT, NONE>>}

QueryRecord(id, compass, times) ==
    [Query(id, compass[1], compass[2], ABSENT) EXCEPT
        !.lastExecutedAt = times[1], !.lastSuccessfulExecutionAt = times[2],
        !.resultLastAccessedAt = times[3]]

LookupRecords ==
    {QueryRecord(id, compass, times) :
        id \in QueryIds, compass \in LookupCompassIds, times \in LookupTimes}

\* the query_id argument: a known id, an id no record carries, no id
LookupIds == QueryIds \cup {"q3", NONE}

InitLookup ==
    /\ pc = "off"
    /\ error = NONE
    /\ soup = NoSoup
    /\ dirs = {}
    /\ metadata = NoMetadata
    /\ dashboard_data = NoDashboard
    /\ next_cell = 1
    /\ chart_count = 0
    /\ processed_queries = {}
    /\ visualizations = <<>>
    /\ calls = <<>>
    /\ writes = <<>>
    /\ run_idle
    /\ resolver_idle
    /\ locator_idle
    /\ search_idle
    /\ csv_idle
    /\ \E queries \in SeqUpTo(LookupRecords, MaxRecords), query_id \in LookupIds :
         lookup_in = [dashboard_data |-> Dashboard("T", AbsentConfig, AbsentConfig, queries),
                      query_id |-> query_id]
    /\ lookup_out = [compass_id |-> [status |-> "off"], metadata |-> [status |-> "off"]]

\* lines 1224-1244
FindCompassId ==
    /\ lookup_out.compass_id.status = "off"
    /\ lookup_out' = [lookup_out EXCEPT !.compass_id =
           Return(_find_compass_id_for_query(lookup_in.query_id, lookup_in.dashboard_data))]
    /\ UNCHANGED lookup_in
    /\ UNCHANGED pipeline_vars
    /\ UNCHANGED resolver_vars
    /\ UNCHANGED locator_vars
    /\ UNCHANGED search_vars
    /\ UNCHANGED csv_vars

\* lines 1294-1317
GetQueryMetadata ==
    /\ lookup_out.metadata.status = "off"
    /\ lookup_out' = [lookup_out EXCEPT !.metadata =
           Return(_get_query_metadata(lookup_in.query_id, lookup_in.dashboard_data))]
    /\ UNCHANGED lookup_in
    /\ UNCHANGED pipeline_vars
    /\ UNCHANGED resolver_vars
    /\ UNCHANGED locator_vars
    /\ UNCHANGED search_vars
    /\ UNCHANGED csv_vars

NextLookup == FindCompassId \/ GetQueryMetadata

SpecLookup == InitLookup /\ [][NextLookup]_vars

-----------------------------------------------------------------------------
(* Properties of the lookups, under SpecLookup *)

\* the records of the queries list that carry the looked-up id
records_carrying(d, query_id) ==
    SelectSeq(d.queries, LAMBDA query : query_id # NONE /\ query.id = query_id)

\* lastSuccessfulCompassId, or lastExecutedCompassId when the former is absent or empty;
\* NONE when that one is absent or empty too
compass_of_record(query) ==
    IF query.lastSuccessfulCompassId \notin {ABSENT, NONE, ""}
    THEN query.lastSuccessfulCompassId
    ELSE IF query.lastExecutedCompassId \notin {ABSENT, NONE, ""}
         THEN query.lastExecutedCompassId
         ELSE NONE

times_of_record(query) ==
    [last_executed |-> Get(query.lastExecutedAt),
     last_successful_execution |-> Get(query.lastSuccessfulExecutionAt),
     result_last_accessed |-> Get(query.resultLastAccessedAt)]

\* C16: when one record of the queries list carries the looked-up id, the lookup returns
\* as compass id that record's lastSuccessfulCompassId, or its lastExecutedCompassId when
\* the former is absent or empty, and as metadata that record's lastExecutedAt,
\* lastSuccessfulExecutionAt and resultLastAccessedAt; when no record carries the id, or
\* there is no id, it returns no compass id and all-absent metadata; it never fails.
C16_LookupById ==
    LET found == records_carrying(lookup_in.dashboard_data, lookup_in.query_id)
    IN  /\ lookup_out.compass_id.status # "raise"
        /\ lookup_out.metadata.status # "raise"
        /\ Len(found) = 1
           => /\ lookup_out.compass_id.status = "ok"
                 => lookup_out.compass_id.value = compass_of_record(found[1])
              /\ lookup_out.metadata.status = "ok"
                 => lookup_out.metadata.value = times_of_record(found[1])
        /\ Len(found) = 0
           => /\ lookup_out.compass_id.status = "ok" => lookup_out.compass_id.value = NONE
              /\ lookup_out.metadata.status = "ok"
                 => lookup_out.metadata.value = NoQueryMetadata

\* both lookups returned for an id carried by the second of two records, whose
\* lastSuccessfulCompassId is empty and whose lastExecutedCompassId is not
C16_FallbackFound ==
    /\ lookup_out.compass_id.status = "ok"
    /\ lookup_out.metadata.status = "ok"
    /\ Len(lookup_in.dashboard_data.queries) = 2
    /\ lookup_in.dashboard_data.queries[1].id # lookup_in.query_id
    /\ lookup_in.dashboard_data.queries[2].id = lookup_in.query_id
    /\ lookup_in.dashboard_data.queries[2].lastSuccessfulCompassId = ""
    /\ lookup_out.compass_id.value = "k2"
    /\ lookup_out.metadata.value.last_executed = "t1"

-----------------------------------------------------------------------------
(* The CSV text of a fetched result, on its own: specification SpecCsv *)
(* A text is the sequence of its characters.                         *)

MaxChars == 1
MaxCols == 2
MaxRows == 2

CellChars == {"a", ",", "\"", "\n"}
HeSaid == <<"H", "e", " ", "s", "a", "i", "d", ",", " ", "\"", "h", "i", "\"">>

\* a cell of csvData: a str, or a value of another type with the text str() gives it
StrCell(chars) == [type |-> "str", chars |-> chars]
IntCell == [type |-> "int", chars |-> <<"7">>]
NoneCell == [type |-> "NoneType", chars |-> <<"N", "o", "n", "e">>]
Cells == {StrCell(chars) : chars \in SeqUpTo(CellChars, MaxChars) \cup {HeSaid}} \cup {IntCell, NoneCell}

ColumnLists == {<<>>, <<<<"c">>>>, <<<<"c">>, <<"d">>>>, <<<<"c", ",", "d">>>>}

\* cell.replace('"', '""')
RECURSIVE replace_quotes(_)
replace_quotes(chars) ==
    IF chars = <<>> THEN <<>>
    ELSE (IF Head(chars) = "\"" THEN <<"\"", "\"">> ELSE <<Head(chars)>>)
         \o replace_quotes(Tail(chars))

\* a cell without the doubling of its quotes
csv_cell_undoubled(cell) ==
    IF cell.type = "str" /\ \E i \in DOMAIN cell.chars : cell.chars[i] \in {",", "\"", "\n"}
    THEN <<"\"">> \o cell.chars \o <<"\"">>
    ELSE cell.chars

\* lines 1269-1274: one cell of a data row
csv_cell(cell) ==
    IF cell.type = "str" /\ \E i \in DOMAIN cell.chars : cell.chars[i] \in {",", "\"", "\n"}
    THEN <<"\"">> \o replace_quotes(cell.chars) \o <<"\"">>
    ELSE cell.chars

\* sep.join(texts)
RECURSIVE join(_, _)
join(sep, texts) ==
    IF texts = <<>> THEN <<>>
    ELSE IF Len(texts) = 1 THEN texts[1]
    ELSE texts[1] \o <<sep>> \o join(sep, Tail(texts))

\* lines 1263-1275: csv_content
csv_content(columns, csv_data) ==
    <<join(",", columns)>>
    \o [r \in 1..Len(csv_data) |->
           join(",", [c \in 1..Len(csv_data[r]) |-> csv_cell(csv_data[r][c])])]

\* lines 1253-1292, after the request: the text written to <file_identifier>.csv, if any
csv_written(response) ==
    IF response.status_code = 200 /\ response.columns # <<>> /\ response.csvData # <<>>
    THEN [status |-> "written", text |-> join("\n", csv_content(response.columns, response.csvData))]
    ELSE [status |-> "none"]

\* f.readlines(): the lines of a text, each with its line terminator
RECURSIVE readlines(_)
readlines(text) ==
    IF text = <<>> THEN <<>>
    ELSE IF \E i \in DOMAIN text : text[i] = "\n"
    THEN LET i == CHOOSE i \in DOMAIN text :
                      text[i] = "\n" /\ \A j \in 1..(i - 1) : text[j] # "\n"
         IN <<SubSeq(text, 1, i)>> \o readlines(SubSeq(text, i + 1, Len(text)))
    ELSE <<text>>

\* chars.split(sep)
RECURSIVE split_on(_, _)
split_on(chars, sep) ==
    IF \E i \in DOMAIN chars : chars[i] = sep
    THEN LET i == CHOOSE i \in DOMAIN chars :
                      chars[i] = sep /\ \A j \in 1..(i - 1) : chars[j] # sep
         IN <<SubSeq(chars, 1, i - 1)>> \o split_on(SubSeq(chars, i + 1, Len(chars)), sep)
    ELSE <<chars>>

Whitespace == {" ", "\t", "\n", "\r"}
Quote == {"\""}

\* chars.strip() and chars.strip('"'): the characters of drop removed from both ends
RECURSIVE strip(_, _)
strip(chars, drop) ==
    IF chars = <<>> THEN <<>>
    ELSE IF Head(chars) \in drop THEN strip(Tail(chars), drop)
    ELSE IF chars[Len(chars)] \in drop THEN strip(SubSeq(chars, 1, Len(chars) - 1), drop)
    ELSE chars

\* line 975: if line.strip()
not_blank(line) == strip(line, Whitespace) # <<>>

\* lines 967-977 of _generate_chart_js: the headers and rows read from the text of a file
csv_read(text) ==
    LET lines == readlines(text)
    IN IF Len(lines) < 2 THEN [status |-> "skipped", text |-> text]
       ELSE LET kept == SelectSeq(Tail(lines), not_blank)
            IN [status |-> "read", text |-> text,
                headers |-> LET hs == split_on(lines[1], ",")
                            IN [h \in 1..Len(hs) |-> strip(hs[h], Whitespace)],
                rows |-> [r \in 1..Len(kept) |->
                             LET cells == split_on(kept[r], ",")
                             IN [c \in 1..Len(cells) |->
                                    strip(strip(cells[c], Whitespace), Quote)]]]

InitCsv ==
    /\ pc = "off"
    /\ error = NONE
    /\ soup = NoSoup
    /\ dirs = {}
    /\ metadata = NoMetadata
    /\ dashboard_data = NoDashboard
    /\ next_cell = 1
    /\ chart_count = 0
    /\ processed_queries = {}
    /\ visualizations = <<>>
    /\ calls = <<>>
    /\ writes = <<>>
    /\ run_idle
    /\ resolver_idle
    /\ locator_idle
    /\ search_idle
    /\ lookup_idle
    /\ \E status_code \in {200, 500}, columns \in ColumnLists,
          csvData \in SeqUpTo(SeqUpTo(Cells, MaxCols), MaxRows) :
         csv_in = [status_code |-> status_code, columns |-> columns, csvData |-> csvData]
    /\ csv_out = [status |-> "off"]

SerializeResult ==
    /\ csv_out.status = "off"
    /\ csv_out' = csv_written(csv_in)
    /\ UNCHANGED csv_in
    /\ UNCHANGED pipeline_vars
    /\ UNCHANGED resolver_vars
    /\ UNCHANGED locator_vars
    /\ UNCHANGED search_vars
    /\ UNCHANGED lookup_vars

\* _generate_chart_js reads the file that _fetch_csv_data_from_compass wrote
ReadResult ==
    /\ csv_out.status = "written"
    /\ csv_out' = csv_read(csv_out.text)
    /\ UNCHANGED csv_in
    /\ UNCHANGED pipeline_vars
    /\ UNCHANGED resolver_vars
    /\ UNCHANGED locator_vars
    /\ UNCHANGED search_vars
    /\ UNCHANGED lookup_vars

NextCsv == SerializeResult \/ ReadResult

SpecCsv == InitCsv /\ [][NextCsv]_vars

-----------------------------------------------------------------------------
(* Properties of the CSV text, under SpecCsv *)

\* a cell value contains a comma, a double quote or a newline
needs_quoting(cell) ==
    cell.type = "str" /\ \E i \in DOMAIN cell.chars : cell.chars[i] \in {",", "\"", "\n"}

\* the value between double quotes, each of its double quotes doubled
RECURSIVE doubled(_)
doubled(chars) ==
    IF chars = <<>> THEN <<>>
    ELSE IF Head(chars) = "\"" THEN <<"\"", "\"">> \o doubled(Tail(chars))
         ELSE <<Head(chars)>> \o doubled(Tail(chars))
emitted(cell) ==
    IF needs_quoting(cell) THEN <<"\"">> \o doubled(cell.chars) \o <<"\"">> ELSE cell.chars

RECURSIVE lines_of(_)
lines_of(rows) ==
    IF rows = <<>> THEN <<>>
    ELSE <<"\n">> \o join(",", [c \in 1..Len(Head(rows)) |-> emitted(Head(rows)[c])])
         \o lines_of(Tail(rows))

\* C17: the text written for a fetched result is the header row followed by one line per
\* data row, the cells of a line separated by commas; a cell value containing a comma, a
\* double quote or a newline stands between double quotes with each of its double quotes
\* doubled, every other cell stands as it is; He said, "hi" stands as "He said, ""hi""".
C17_CellsQuoted ==
    /\ csv_out.status = "written"
       => csv_out.text = join(",", csv_in.columns) \o lines_of(csv_in.csvData)
    /\ csv_out.status = "written" /\ csv_in.columns = <<<<"c">>>> /\ csv_in.csvData = <<<<StrCell(HeSaid)>>>>
       => csv_out.text = <<"c", "\n">> \o <<"\"", "H", "e", " ", "s", "a", "i", "d", ",", " ", "\"", "\"", "h", "i", "\"", "\"", "\"">>

\* a result was written whose rows hold He said, "hi", a cell with a quote only, and a
\* cell that needs no quoting
C17_QuotedAndPlain ==
    /\ csv_out.status = "written"
    /\ csv_in.csvData = <<<<StrCell(HeSaid), IntCell>>, <<StrCell(<<"\"">>), StrCell(<<"a">>)>>>>

\* C27: the reader of _generate_chart_js recovers, from the text written for a column
\* list and a row list, as many header fields as there are columns and, for every data
\* row, as many cells with the same texts, also for cells and column names that contain
\* a comma, a double quote or a newline.
C27_RoundTrip ==
    csv_out.status \in {"read", "skipped"}
    => /\ csv_out.status = "read"
       /\ Len(csv_out.headers) = Len(csv_in.columns)
       /\ Len(csv_out.rows) = Len(csv_in.csvData)
       /\ \A r \in 1..Len(csv_in.csvData) :
            /\ Len(csv_out.rows[r]) = Len(csv_in.csvData[r])
            /\ \A c \in 1..Len(csv_in.csvData[r]) :
                 csv_out.rows[r][c] = csv_in.csvData[r][c].chars

====
